---- MODULE Spec2Model ----
(***************************************************************************)
(* Cosmic Deception: the room registry and game-state machine of           *)
(* src/server.js (socket.io handlers over the module-level maps `rooms`    *)
(* and `playerSockets`).  One action per socket event handler; every       *)
(* Math.random() draw, every client payload and Date.now() is an input     *)
(* chosen with \E from a small set.  JavaScript Maps are functions whose   *)
(* DOMAIN is the key set; room.players (a Map iterated in insertion order) *)
(* is a sequence of player records carrying their map key.                 *)
(* The team-based server of src/unnamed/part_005 (one module-level         *)
(* `gameState`, respawn timers, the game loop) is modelled beside it on    *)
(* variables of its own; the two programs share the clock and the record   *)
(* of the event handled last.                                              *)
(***************************************************************************)
EXTENDS Integers, Sequences, FiniteSets, TLC

VARIABLES
    rooms,              \* const rooms = new Map()          code -> room
    playerSockets,      \* const playerSockets = new Map()  socket.id -> {roomCode, playerId}
    connected,          \* socket ids with a live connection (io.on('connection') .. 'disconnect')
    nextSock,           \* next socket id the transport hands out
    nextId,             \* next uuidv4() value, as a counter
    now,                \* Date.now(), in milliseconds
    emergencyRateLimit, \* the per-connection emergencyRateLimit maps, socket.id -> ms
    voteRateLimit,      \* the per-connection voteRateLimit maps, socket.id -> ms
    ack,                \* the event handled last and the reply passed to its callback
    emits,              \* room broadcasts (io.to(room).emit) of the event handled last
    crashed,            \* an event handler threw (TypeError on an undefined room)
    gameState,          \* part_005: const gameState = { players, ships, teams, ... }
    timers,             \* part_005: the pending setTimeout callbacks of handleShipDestruction
    clients,            \* part_005: socket ids with a live connection
    nextClient          \* part_005: next socket id the transport hands out

vars == <<rooms, playerSockets, connected, nextSock, nextId, now,
          emergencyRateLimit, voteRateLimit, ack, emits, crashed,
          gameState, timers, clients, nextClient>>

\* the state of the team-based server, which no handler of src/server.js touches
teamVars == <<gameState, timers, clients, nextClient>>

----------------------------------------------------------------------------
(* Program constants *)

MAP_WIDTH == 1600
MAP_HEIGHT == 1200

SpawnPoints ==
    << [x |-> 800, y |-> 600], [x |-> 400, y |-> 300], [x |-> 1200, y |-> 300],
       [x |-> 400, y |-> 900], [x |-> 1200, y |-> 900] >>

\* maps.skeld.tasks: the template ids, in pool order
TaskTemplates ==
    << "fix_wires", "fuel_engine", "clean_filter", "align_output", "divert_power" >>

PLAYER_COLORS ==
    << "#FF0000", "#00FF00", "#0000FF", "#FFFF00", "#FF00FF", "#00FFFF",
       "#FFA500", "#800080", "#008000", "#000080", "#FFC0CB", "#A52A2A",
       "#808080", "#000000", "#4B0082", "#40E0D0", "#FA8072", "#EE82EE",
       "#FFD700", "#ADFF2F" >>

PHASE == [LOBBY |-> "lobby", TASKS |-> "tasks", MEETING |-> "meeting",
          GAME_OVER |-> "game_over"]

DefaultMaxPlayers == 20
DefaultKillCooldown == 30
MinPlayers == 4
NameCap == 15
EMERGENCY_COOLDOWN == 10000
VOTE_COOLDOWN == 1000
KillRange == 150
ReportRange == 60

\* Date.now() when the process starts: later than every cooldown window
StartTime == 100 * 1000

----------------------------------------------------------------------------
(* Strings as character sequences: trim, slice, case-insensitive search *)

UpperChars == << "A","B","C","D","E","F","G","H","I","J","K","L","M",
                 "N","O","P","Q","R","S","T","U","V","W","X","Y","Z" >>
LowerChars == << "a","b","c","d","e","f","g","h","i","j","k","l","m",
                 "n","o","p","q","r","s","t","u","v","w","x","y","z" >>

\* the case tables, as functions of the letter
LowerOf == [ch \in {UpperChars[i] : i \in 1..Len(UpperChars)} |->
               LowerChars[CHOOSE i \in 1..Len(UpperChars) : UpperChars[i] = ch]]
UpperOf == [ch \in {LowerChars[i] : i \in 1..Len(LowerChars)} |->
               UpperChars[CHOOSE i \in 1..Len(LowerChars) : LowerChars[i] = ch]]

ToLower(ch) == IF ch \in DOMAIN LowerOf THEN LowerOf[ch] ELSE ch

ToUpper(ch) == IF ch \in DOMAIN UpperOf THEN UpperOf[ch] ELSE ch

\* String.prototype.toUpperCase
ToUpperCase(str) == [i \in 1..Len(str) |-> ToUpper(str[i])]

IsSpace(ch) == ch = " "

RECURSIVE TrimLeft(_)
TrimLeft(str) ==
    IF str # <<>> /\ IsSpace(Head(str)) THEN TrimLeft(Tail(str)) ELSE str

RECURSIVE TrimRight(_)
TrimRight(str) ==
    IF str # <<>> /\ IsSpace(str[Len(str)])
    THEN TrimRight(SubSeq(str, 1, Len(str) - 1))
    ELSE str

\* String.prototype.trim
Trim(str) == TrimRight(TrimLeft(str))

\* str.slice(0, n)
Slice0(str, n) == SubSeq(str, 1, IF Len(str) < n THEN Len(str) ELSE n)

\* pat occurs in str, ignoring case (the /i flag)
ContainsI(str, pat) ==
    \E k \in 0..(Len(str) - Len(pat)) :
        \A i \in 1..Len(pat) : ToLower(str[k + i]) = ToLower(pat[i])

\* /<script|javascript:|data:/i
OffensivePatterns ==
    { << "<","s","c","r","i","p","t" >>,
      << "j","a","v","a","s","c","r","i","p","t",":" >>,
      << "d","a","t","a",":" >> }

\* const sanitizedName = (playerName || '').trim().slice(0, 15)
SanitizeName(playerName) == Slice0(Trim(playerName), NameCap)

\* the two name checks of joinRoom, on the sanitized name
NameEmpty(sanitizedName) == Len(sanitizedName) = 0
NameOffensive(sanitizedName) ==
    \E pat \in OffensivePatterns : ContainsI(sanitizedName, pat)

----------------------------------------------------------------------------
(* Values *)

\* a vote target / votedFor value: null, 'skip' or a player id
VNull == [kind |-> "null", id |-> 0]
VSkip == [kind |-> "skip", id |-> 0]
VId(id) == [kind |-> "id", id |-> id]

\* the callback replies that are not failures
ReplyOk == "ok"
ReplyNone == "none"      \* the handler returned without calling back
ReplyThrow == "throw"    \* the handler threw
ReplyApplied == "applied" \* a handler that takes no callback changed the state

Ack(ev, s, reply) == [ev |-> ev, sock |-> s, reply |-> reply]

IsFailure(a) == a.reply \notin {ReplyOk, ReplyNone, ReplyThrow, ReplyApplied}

\* a broadcast io.to(roomCode).emit(ev, ...): id is the player id it carries (0: none),
\* what its winners / type / ejected field ("" : none).  Tracked: hostChanged,
\* gameOver, meetingCalled, meetingEnded, playerKilled.
Emit(ev, roomCode, id, what) == [ev |-> ev, room |-> roomCode, id |-> id, what |-> what]

----------------------------------------------------------------------------
(* Map helpers *)

MapSet(m, k, v) == [x \in (DOMAIN m) \cup {k} |-> IF x = k THEN v ELSE m[x]]
MapDelete(m, k) == [x \in (DOMAIN m) \ {k} |-> m[x]]
\* map.get(k) || 0
GetOr0(m, k) == IF k \in DOMAIN m THEN m[k] ELSE 0

\* room.players as a sequence in insertion order; key is the Map key
PlayerKeys(ps) == {ps[i].key : i \in 1..Len(ps)}
HasPlayer(ps, k) == \E i \in 1..Len(ps) : ps[i].key = k
IndexOfKey(ps, k) == CHOOSE i \in 1..Len(ps) : ps[i].key = k
GetPlayer(ps, k) == ps[IndexOfKey(ps, k)]

RECURSIVE SeqFilterKey(_, _)
\* room.players.delete(k)
SeqFilterKey(ps, k) ==
    IF ps = <<>> THEN <<>>
    ELSE IF Head(ps).key = k THEN SeqFilterKey(Tail(ps), k)
    ELSE <<Head(ps)>> \o SeqFilterKey(Tail(ps), k)

RECURSIVE FilterOut(_, _)
\* ids.filter(id => id !== x)
FilterOut(ids, x) ==
    IF ids = <<>> THEN <<>>
    ELSE IF Head(ids) = x THEN FilterOut(Tail(ids), x)
    ELSE <<Head(ids)>> \o FilterOut(Tail(ids), x)

RECURSIVE CountAlive(_, _)
\* ids.filter(id => { const p = room.players.get(id); return p && p.isAlive; }).length
CountAlive(ids, ps) ==
    IF ids = <<>> THEN 0
    ELSE (IF HasPlayer(ps, Head(ids)) /\ GetPlayer(ps, Head(ids)).isAlive THEN 1 ELSE 0)
         + CountAlive(Tail(ids), ps)

Min(a, b) == IF a < b THEN a ELSE b
Max(a, b) == IF a > b THEN a ELSE b

----------------------------------------------------------------------------
(* Initial state: the process has started, nobody is connected *)

Init ==
    /\ rooms = << >>
    /\ playerSockets = << >>
    /\ connected = {}
    /\ nextSock = 1
    /\ nextId = 1
    /\ now = StartTime
    /\ emergencyRateLimit = << >>
    /\ voteRateLimit = << >>
    /\ ack = Ack("init", 0, ReplyNone)
    /\ emits = << >>
    /\ crashed = FALSE
    /\ gameState = [ players |-> << >>,
                     ships |-> << >>,
                     teams |-> [ red |-> [score |-> 0, players |-> << >>],
                                 blue |-> [score |-> 0, players |-> << >>],
                                 neutral |-> [score |-> 0, players |-> << >>] ] ]
    /\ timers = << >>
    /\ clients = {}
    /\ nextClient = 1

\* an event handler throws: nothing is mutated, the process takes the exception
Throw(ev, s) ==
    /\ crashed' = TRUE
    /\ ack' = Ack(ev, s, ReplyThrow)
    /\ emits' = << >>
    /\ UNCHANGED <<rooms, playerSockets, connected, nextSock, nextId, now,
                   emergencyRateLimit, voteRateLimit>>

\* the handler replies and changes nothing
Reply(ev, s, reply) ==
    /\ ack' = Ack(ev, s, reply)
    /\ emits' = << >>
    /\ UNCHANGED <<rooms, playerSockets, connected, nextSock, nextId, now,
                   emergencyRateLimit, voteRateLimit, crashed>>

\* io.on('connection'): a new socket with its own (empty) rate-limit maps
Connect ==
    /\ ~crashed
    /\ UNCHANGED teamVars
    /\ connected' = connected \cup {nextSock}
    /\ nextSock' = nextSock + 1
    /\ ack' = Ack("connection", nextSock, ReplyNone)
    /\ emits' = << >>
    /\ UNCHANGED <<rooms, playerSockets, nextId, now, emergencyRateLimit,
                   voteRateLimit, crashed>>

\* the clock advances between two events
Tick(d) ==
    /\ ~crashed
    /\ UNCHANGED teamVars
    /\ now' = now + d
    /\ ack' = Ack("tick", 0, ReplyNone)
    /\ emits' = << >>
    /\ UNCHANGED <<rooms, playerSockets, connected, nextSock, nextId,
                   emergencyRateLimit, voteRateLimit, crashed>>

----------------------------------------------------------------------------
(* Room registry *)

DefaultEmergencyCooldown == 15
DefaultDiscussionTime == 30
DefaultVotingTime == 30

\* v || d, for a numeric setting (0 stands for an absent or falsy value)
OrDefault(v, d) == IF v = 0 THEN d ELSE v

\* the room object createRoom builds
NewRoom(roomCode, hostSocketId, settings) ==
    [ code |-> roomCode,
      host |-> hostSocketId,
      players |-> << >>,
      gameState |->
        [ phase |-> PHASE.LOBBY,
          imposters |-> << >>,
          crewmates |-> << >>,
          tasks |-> << >>,
          meetingActive |-> FALSE,
          votes |-> << >>,
          bodyReported |-> FALSE,
          emergencyCalled |-> FALSE,
          taskProgress |-> 0,
          totalTasks |-> 0,
          map |-> IF settings.map = "" THEN "skeld" ELSE settings.map,
          hasKillCooldowns |-> FALSE,     \* imposterKillCooldowns is undefined until resetGame
          imposterKillCooldowns |-> << >>,
          emergenciesAccepted |-> 0,      \* history: the emergency calls accepted since resetGame
          winnersAnnounced |-> {} ],      \* history: the winners of the gameOver events since resetGame
      settings |->
        [ maxPlayers |-> OrDefault(settings.maxPlayers, DefaultMaxPlayers),
          killCooldown |-> OrDefault(settings.killCooldown, DefaultKillCooldown),
          emergencyCooldown |-> OrDefault(settings.emergencyCooldown, DefaultEmergencyCooldown),
          discussionTime |-> OrDefault(settings.discussionTime, DefaultDiscussionTime),
          votingTime |-> OrDefault(settings.votingTime, DefaultVotingTime),
          map |-> settings.map ] ]

\* rooms.set(roomCode, room): the registry after createRoom drew roomCode
RegisterRoom(R, roomCode, room) == MapSet(R, roomCode, room)

\* socket.on('createRoom'): roomCode is what generateRoomCode() returned
\* (Math.random().toString(36).substring(2, 8).toUpperCase(): any code, live or not)
CreateRoom(s, roomCode, settings) ==
    /\ ~crashed
    /\ UNCHANGED teamVars
    /\ s \in connected
    /\ rooms' = RegisterRoom(rooms, roomCode, NewRoom(roomCode, s, settings))
    /\ ack' = Ack("createRoom", s, ReplyOk)
    /\ emits' = << >>
    /\ UNCHANGED <<playerSockets, connected, nextSock, nextId, now,
                   emergencyRateLimit, voteRateLimit, crashed>>

\* the player object joinRoom builds
NewPlayer(playerId, s, sanitizedName, color, room, jx, jy) ==
    [ key |-> playerId,
      id |-> playerId,
      socketId |-> s,
      name |-> sanitizedName,
      color |-> IF color = "" THEN PLAYER_COLORS[(Len(room.players) % Len(PLAYER_COLORS)) + 1]
                ELSE color,
      role |-> "crewmate",
      isAlive |-> TRUE,
      x |-> 800 + jx,
      y |-> 600 + jy,
      completedTasks |-> 0,
      votedFor |-> VNull ]

\* joinRoom's checks without the phase check
JoinReplyAnyPhase(R, roomCode, playerName) ==
    LET code == ToUpperCase(roomCode) IN
    IF code \notin DOMAIN R THEN "Room not found"
    ELSE IF Len(R[code].players) >= R[code].settings.maxPlayers THEN "Room is full"
    ELSE IF NameEmpty(SanitizeName(playerName)) THEN "Player name cannot be empty"
    ELSE IF NameOffensive(SanitizeName(playerName)) THEN "Invalid player name"
    ELSE ReplyOk

\* the reply of joinRoom's checks, in the order the handler makes them
JoinReply(R, roomCode, playerName) ==
    LET code == ToUpperCase(roomCode) IN
    IF code \notin DOMAIN R THEN "Room not found"
    ELSE IF Len(R[code].players) >= R[code].settings.maxPlayers THEN "Room is full"
    ELSE IF R[code].gameState.phase # PHASE.LOBBY THEN "Game already in progress"
    ELSE IF NameEmpty(SanitizeName(playerName)) THEN "Player name cannot be empty"
    ELSE IF NameOffensive(SanitizeName(playerName)) THEN "Invalid player name"
    ELSE ReplyOk

\* socket.on('joinRoom')
JoinRoom(s, roomCode, playerName, color, jx, jy) ==
    /\ ~crashed
    /\ UNCHANGED teamVars
    /\ s \in connected
    /\ LET reply == JoinReply(rooms, roomCode, playerName)
           code == ToUpperCase(roomCode)
       IN  IF reply # ReplyOk
           THEN Reply("joinRoom", s, reply)
           ELSE LET room == rooms[code]
                    player == NewPlayer(nextId, s, SanitizeName(playerName), color, room, jx, jy)
                IN  /\ rooms' = [rooms EXCEPT ![code].players = Append(@, player)]
                    /\ playerSockets' = MapSet(playerSockets, s,
                                               [roomCode |-> room.code, playerId |-> nextId])
                    /\ nextId' = nextId + 1
                    /\ ack' = Ack("joinRoom", s, ReplyOk)
                    /\ emits' = << >>
                    /\ UNCHANGED <<connected, nextSock, now, emergencyRateLimit,
                                   voteRateLimit, crashed>>

\* Object.assign(player, updates): every own property of updates is copied
Assign(player, updates) ==
    [f \in DOMAIN player |->
        IF f \in (DOMAIN updates) \ {"key"} THEN updates[f] ELSE player[f]]

\* socket.on('updatePlayer')
UpdatePlayer(s, updates) ==
    /\ ~crashed
    /\ UNCHANGED teamVars
    /\ s \in connected
    /\ IF s \notin DOMAIN playerSockets THEN Reply("updatePlayer", s, "Not in a room")
       ELSE LET data == playerSockets[s] IN
            IF data.roomCode \notin DOMAIN rooms THEN Throw("updatePlayer", s)
            ELSE LET room == rooms[data.roomCode] IN
                 IF ~HasPlayer(room.players, data.playerId)
                 THEN Reply("updatePlayer", s, "Player not found")
                 ELSE /\ rooms' = [rooms EXCEPT ![data.roomCode].players[
                                        IndexOfKey(room.players, data.playerId)] =
                                            Assign(@, updates)]
                      /\ ack' = Ack("updatePlayer", s, ReplyOk)
                      /\ emits' = << >>
                      /\ UNCHANGED <<playerSockets, connected, nextSock, nextId, now,
                                     emergencyRateLimit, voteRateLimit, crashed>>

\* the win check of handleDisconnect on the room left behind
DisconnectWinner(gs, ps) ==
    LET aliveImposters == CountAlive(gs.imposters, ps)
        aliveCrewmates == CountAlive(gs.crewmates, ps)
    IN  IF aliveImposters = 0 THEN "crewmates"
        ELSE IF aliveImposters >= aliveCrewmates THEN "imposters"
        ELSE "none"

\* the room after players.delete: the roster without the leaver
RemovePlayer(room, playerId) ==
    [room EXCEPT !.players = SeqFilterKey(@, playerId)]

\* handleDisconnect takes no callback: whether it got past its two early returns
LeaveReply(R, PS, s) ==
    IF s \in DOMAIN PS /\ PS[s].roomCode \in DOMAIN R THEN ReplyApplied ELSE ReplyNone

\* a handleDisconnect that keeps the binding and drops the head of the roster
HandleDisconnectAgain(R, PS, s) ==
    IF LeaveReply(R, PS, s) = ReplyNone
    THEN [rooms |-> R, playerSockets |-> PS, emits |-> << >>]
    ELSE [rooms |-> [R EXCEPT ![PS[s].roomCode].players =
                        IF Len(@) > 0 THEN Tail(@) ELSE @],
          playerSockets |-> PS,
          emits |-> << >>]

\* function handleDisconnect(socket), on the two registries:
\* the registries afterwards and the broadcasts made
HandleDisconnect(R, PS, s) ==
    IF s \notin DOMAIN PS THEN [rooms |-> R, playerSockets |-> PS, emits |-> << >>]
    ELSE LET data == PS[s] IN
    IF data.roomCode \notin DOMAIN R THEN [rooms |-> R, playerSockets |-> PS, emits |-> << >>]
    ELSE
    LET room == R[data.roomCode]
        known == HasPlayer(room.players, data.playerId)
        player == GetPlayer(room.players, data.playerId)
        room1 == RemovePlayer(room, data.playerId)
        hostLeft == room.host = s
        dissolve == hostLeft /\ Len(room1.players) = 0
        room2 == IF hostLeft /\ Len(room1.players) > 0
                 THEN [room1 EXCEPT !.host = room1.players[1].socketId]
                 ELSE room1
        e1 == IF hostLeft /\ Len(room1.players) > 0
              THEN << Emit("hostChanged", data.roomCode, room1.players[1].id, "") >>
              ELSE << >>
        inGame == room.gameState.phase # PHASE.LOBBY /\ known /\ player.isAlive
        gs3 == IF ~inGame THEN room2.gameState
               ELSE IF player.role = "imposter"
               THEN [room2.gameState EXCEPT !.imposters = FilterOut(@, data.playerId)]
               ELSE [room2.gameState EXCEPT !.crewmates = FilterOut(@, data.playerId)]
        winner == IF inGame THEN DisconnectWinner(gs3, room2.players) ELSE "none"
        room3 == [room2 EXCEPT !.gameState =
                     IF winner = "none" THEN gs3
                     ELSE [gs3 EXCEPT !.phase = PHASE.GAME_OVER,
                                      !.winnersAnnounced = @ \cup {winner}]]
        e2 == IF winner = "none" THEN << >>
              ELSE << Emit("gameOver", data.roomCode, 0, winner) >>
    IN  [ rooms |-> IF dissolve THEN MapDelete(R, data.roomCode)
                    ELSE [R EXCEPT ![data.roomCode] = room3],
          playerSockets |-> MapDelete(PS, s),
          emits |-> e1 \o e2 ]

\* a leaveRoom that also drops the connection's players from every other room
LeaveRoomEverywhere(s) ==
    /\ ~crashed
    /\ UNCHANGED teamVars
    /\ s \in connected
    /\ LET res == HandleDisconnect(rooms, playerSockets, s) IN
        /\ rooms' = [c \in DOMAIN res.rooms |->
                        [res.rooms[c] EXCEPT !.players =
                            SelectSeq(@, LAMBDA player : player.socketId # s)]]
        /\ playerSockets' = res.playerSockets
        /\ emits' = res.emits
    /\ ack' = Ack("leaveRoom", s, LeaveReply(rooms, playerSockets, s))
    /\ UNCHANGED <<connected, nextSock, nextId, now, emergencyRateLimit,
                   voteRateLimit, crashed>>

\* socket.on('leaveRoom')
LeaveRoom(s) ==
    /\ ~crashed
    /\ UNCHANGED teamVars
    /\ s \in connected
    /\ LET res == HandleDisconnect(rooms, playerSockets, s) IN
        /\ rooms' = res.rooms
        /\ playerSockets' = res.playerSockets
        /\ emits' = res.emits
    /\ ack' = Ack("leaveRoom", s, LeaveReply(rooms, playerSockets, s))
    /\ UNCHANGED <<connected, nextSock, nextId, now, emergencyRateLimit,
                   voteRateLimit, crashed>>

\* socket.on('disconnect'): the connection is gone afterwards
Disconnect(s) ==
    /\ ~crashed
    /\ UNCHANGED teamVars
    /\ s \in connected
    /\ LET res == HandleDisconnect(rooms, playerSockets, s) IN
        /\ rooms' = res.rooms
        /\ playerSockets' = res.playerSockets
        /\ emits' = res.emits
    /\ connected' = connected \ {s}
    /\ ack' = Ack("disconnect", s, LeaveReply(rooms, playerSockets, s))
    /\ UNCHANGED <<nextSock, nextId, now, emergencyRateLimit, voteRateLimit, crashed>>

----------------------------------------------------------------------------
(* Game start: assignRoles and resetGame *)

\* the tiers with their boundaries off by one (< for <=)
NumImpostersStrict(numPlayers) ==
    IF numPlayers < 5 THEN 1 ELSE IF numPlayers < 8 THEN 2 ELSE 3

\* const numImposters = numPlayers <= 5 ? 1 : numPlayers <= 8 ? 2 : 3
NumImposters(numPlayers) ==
    IF numPlayers <= 5 THEN 1 ELSE IF numPlayers <= 8 THEN 2 ELSE 3

\* Array(numPlayers).fill('crewmate') with roles[i] = 'imposter' for i < numImposters
UnshuffledRoles(numPlayers) ==
    [i \in 1..numPlayers |->
        IF i <= NumImposters(numPlayers) THEN "imposter" ELSE "crewmate"]

\* [roles[i], roles[j]] = [roles[j], roles[i]]
Swap(roles, i, j) ==
    [k \in 1..Len(roles) |-> IF k = i THEN roles[j] ELSE IF k = j THEN roles[i] ELSE roles[k]]

RECURSIVE ShuffleFrom(_, _)
\* the Fisher-Yates loop, for (i = length - 1; i > 0; i--) with j = floor(random * (i + 1)):
\* the arrays it can leave, given the arrays it can hold before step i (1-based here)
ShuffleFrom(arrays, i) ==
    IF i <= 1 THEN arrays
    ELSE ShuffleFrom({Swap(r, i, j) : r \in arrays, j \in 1..i}, i - 1)

\* function assignRoles(numPlayers): every array it can return
AssignRoles(numPlayers) ==
    ShuffleFrom({UnshuffledRoles(numPlayers)}, Len(UnshuffledRoles(numPlayers)))

\* the tasks resetGame pushes for one crewmate: draw is the sequence of template
\* indices Math.random() picked (its length is numTasks, 3..5)
TasksFor(playerId, draw) ==
    [i \in 1..Len(draw) |->
        [id |-> TaskTemplates[draw[i]], assignedTo |-> playerId, completed |-> FALSE]]

RECURSIVE ResetPlayers(_, _, _, _, _)
\* the playerArray.forEach of resetGame from index `index` on: acc carries the
\* players rewritten so far and the imposters / crewmates / tasks arrays;
\* draws[k] is the task draw made for the k-th crewmate met
ResetPlayers(ps, roles, draws, index, acc) ==
    IF index > Len(ps) THEN acc
    ELSE LET spawn == SpawnPoints[((index - 1) % Len(SpawnPoints)) + 1]
             player == [ps[index] EXCEPT !.role = roles[index], !.isAlive = TRUE,
                                         !.x = spawn.x, !.y = spawn.y,
                                         !.completedTasks = 0, !.votedFor = VNull]
         IN  ResetPlayers(ps, roles, draws, index + 1,
                [ players |-> Append(acc.players, player),
                  imposters |-> IF player.role = "imposter"
                                THEN Append(acc.imposters, player.id) ELSE acc.imposters,
                  crewmates |-> IF player.role = "imposter"
                                THEN acc.crewmates ELSE Append(acc.crewmates, player.id),
                  tasks |-> IF player.role = "imposter" THEN acc.tasks
                            ELSE acc.tasks
                                 \o TasksFor(player.id, draws[Len(acc.crewmates) + 1]) ])

RECURSIVE CountCrewTasks(_, _)
\* tasks.filter(t => { const player = room.players.get(t.assignedTo);
\*                     return player && player.role !== 'imposter'; }).length
CountCrewTasks(tasks, ps) ==
    IF tasks = <<>> THEN 0
    ELSE (IF HasPlayer(ps, Head(tasks).assignedTo)
             /\ GetPlayer(ps, Head(tasks).assignedTo).role # "imposter" THEN 1 ELSE 0)
         + CountCrewTasks(Tail(tasks), ps)

\* room.gameState.totalTasks as resetGame computes it
TotalTasks(tasks, ps) == CountCrewTasks(tasks, ps)

\* function resetGame(roomCode), on the room: roles is what assignRoles returned,
\* draws[k] the task draw for the k-th crewmate in roster order
ResetGame(room, roles, draws) ==
    LET r == ResetPlayers(room.players, roles, draws, 1,
                 [players |-> << >>, imposters |-> << >>, crewmates |-> << >>,
                  tasks |-> << >>])
    IN  [room EXCEPT
            !.players = r.players,
            !.gameState = [@ EXCEPT
                !.imposters = r.imposters,
                !.crewmates = r.crewmates,
                !.tasks = r.tasks,
                !.totalTasks = TotalTasks(r.tasks, r.players),
                !.phase = PHASE.TASKS,
                !.meetingActive = FALSE,
                !.votes = << >>,
                !.bodyReported = FALSE,
                !.emergencyCalled = FALSE,
                !.hasKillCooldowns = TRUE,
                !.emergenciesAccepted = 0,
                !.winnersAnnounced = {},
                !.imposterKillCooldowns = [id \in {r.imposters[i] : i \in 1..Len(r.imposters)} |-> 0]]]

\* startGame's checks without the host check
StartReplyAnyone(room, s) ==
    IF Len(room.players) < MinPlayers THEN "Need at least 4 players" ELSE ReplyOk

\* the reply of startGame's checks, in the order the handler makes them
StartReply(room, s) ==
    IF room.host # s THEN "Only host can start game"
    ELSE IF Len(room.players) < MinPlayers THEN "Need at least 4 players"
    ELSE ReplyOk

\* socket.on('startGame'): taskDraws are the task draws Math.random() can make
\* for one crewmate (sequences of 3..5 template indices)
StartGame(s, taskDraws) ==
    /\ ~crashed
    /\ UNCHANGED teamVars
    /\ s \in connected
    /\ IF s \notin DOMAIN playerSockets THEN Reply("startGame", s, "Not in a room")
       ELSE LET data == playerSockets[s] IN
            IF data.roomCode \notin DOMAIN rooms THEN Throw("startGame", s)
            ELSE LET room == rooms[data.roomCode] IN
                 IF StartReply(room, s) # ReplyOk
                 THEN Reply("startGame", s, StartReply(room, s))
                 ELSE IF room.gameState.map # "skeld" THEN Throw("startGame", s)
                 ELSE \E roles \in AssignRoles(Len(room.players)),
                         draws \in [1..(Len(room.players) - NumImposters(Len(room.players)))
                                      -> taskDraws] :
                      /\ rooms' = [rooms EXCEPT ![data.roomCode] = ResetGame(room, roles, draws)]
                      /\ ack' = Ack("startGame", s, ReplyOk)
                      /\ emits' = << >>
                      /\ UNCHANGED <<playerSockets, connected, nextSock, nextId, now,
                                     emergencyRateLimit, voteRateLimit, crashed>>

----------------------------------------------------------------------------
(* Tasks-phase and meeting handlers *)

\* Math.max(0, Math.min(limit, v))
\* a clamp without the lower bound
ClampAbove(v, limit) == Min(limit, v)

Clamp(v, limit) == Max(0, Min(limit, v))

\* socket.on('playerMove')
PlayerMove(s, mx, my) ==
    /\ ~crashed
    /\ UNCHANGED teamVars
    /\ s \in connected
    /\ IF s \notin DOMAIN playerSockets THEN Reply("playerMove", s, ReplyNone)
       ELSE LET data == playerSockets[s] IN
            IF data.roomCode \notin DOMAIN rooms THEN Throw("playerMove", s)
            ELSE LET room == rooms[data.roomCode] IN
                 IF \/ ~HasPlayer(room.players, data.playerId)
                    \/ ~GetPlayer(room.players, data.playerId).isAlive
                    \/ room.gameState.phase # PHASE.TASKS
                 THEN Reply("playerMove", s, ReplyNone)
                 ELSE IF room.gameState.map # "skeld" THEN Throw("playerMove", s)
                 ELSE /\ rooms' = [rooms EXCEPT ![data.roomCode].players[
                                       IndexOfKey(room.players, data.playerId)] =
                                           [@ EXCEPT !.x = Clamp(mx, MAP_WIDTH),
                                                     !.y = Clamp(my, MAP_HEIGHT)]]
                      /\ ack' = Ack("playerMove", s, ReplyApplied)
                      /\ emits' = << >>
                      /\ UNCHANGED <<playerSockets, connected, nextSock, nextId, now,
                                     emergencyRateLimit, voteRateLimit, crashed>>

Abs(v) == IF v < 0 THEN 0 - v ELSE v

\* a body check without the proximity test
DeadBodyAnywhere(ps, player) ==
    \E i \in 1..Len(ps) : ~ps[i].isAlive /\ ps[i].role # "imposter"

\* Array.from(room.players.values()).some(p => !p.isAlive && p.role !== 'imposter' &&
\*     Math.abs(p.x - player.x) < 60 && Math.abs(p.y - player.y) < 60)
DeadBodyNearby(ps, player) ==
    \E i \in 1..Len(ps) :
        /\ ~ps[i].isAlive
        /\ ps[i].role # "imposter"
        /\ Abs(ps[i].x - player.x) < ReportRange
        /\ Abs(ps[i].y - player.y) < ReportRange

\* the meeting entry shared by reportBody and emergencyMeeting, after the flag
\* of the trigger is set: meetingActive, phase, votes = {} and every votedFor = null
EnterMeeting(room) ==
    [room EXCEPT
        !.gameState = [@ EXCEPT !.meetingActive = TRUE, !.phase = PHASE.MEETING,
                                !.votes = << >>],
        !.players = [i \in 1..Len(room.players) |->
                        [room.players[i] EXCEPT !.votedFor = VNull]]]

\* socket.on('reportBody')
ReportBody(s) ==
    /\ ~crashed
    /\ UNCHANGED teamVars
    /\ s \in connected
    /\ IF s \notin DOMAIN playerSockets THEN Reply("reportBody", s, ReplyNone)
       ELSE LET data == playerSockets[s] IN
            IF data.roomCode \notin DOMAIN rooms THEN Throw("reportBody", s)
            ELSE LET room == rooms[data.roomCode] IN
                 IF \/ ~HasPlayer(room.players, data.playerId)
                    \/ ~GetPlayer(room.players, data.playerId).isAlive
                    \/ room.gameState.bodyReported
                 THEN Reply("reportBody", s, "Cannot report body")
                 ELSE IF ~DeadBodyNearby(room.players, GetPlayer(room.players, data.playerId))
                 THEN Reply("reportBody", s, "No body nearby")
                 ELSE /\ rooms' = [rooms EXCEPT ![data.roomCode] =
                                      EnterMeeting([room EXCEPT !.gameState.bodyReported = TRUE])]
                      /\ ack' = Ack("reportBody", s, ReplyOk)
                      /\ emits' = << Emit("meetingCalled", data.roomCode, data.playerId, "body") >>
                      /\ UNCHANGED <<playerSockets, connected, nextSock, nextId, now,
                                     emergencyRateLimit, voteRateLimit, crashed>>

\* an emergencyMeeting that stamps the rate limit before it checks the caller
\* and the flag of the room
EmergencyMeetingStampFirst(s) ==
    /\ ~crashed
    /\ UNCHANGED teamVars
    /\ s \in connected
    /\ IF s \notin DOMAIN playerSockets THEN Reply("emergencyMeeting", s, ReplyNone)
       ELSE LET data == playerSockets[s] IN
            IF now - GetOr0(emergencyRateLimit, s) < EMERGENCY_COOLDOWN
            THEN Reply("emergencyMeeting", s, "Emergency cooldown active")
            ELSE IF data.roomCode \notin DOMAIN rooms THEN Throw("emergencyMeeting", s)
            ELSE LET room == rooms[data.roomCode] IN
                 /\ emergencyRateLimit' = MapSet(emergencyRateLimit, s, now)
                 /\ IF \/ ~HasPlayer(room.players, data.playerId)
                       \/ ~GetPlayer(room.players, data.playerId).isAlive
                       \/ room.gameState.emergencyCalled
                    THEN /\ ack' = Ack("emergencyMeeting", s, "Emergency cooldown active")
                         /\ emits' = << >>
                         /\ UNCHANGED rooms
                    ELSE /\ rooms' = [rooms EXCEPT ![data.roomCode] =
                                         EnterMeeting([room EXCEPT
                                             !.gameState.emergencyCalled = TRUE,
                                             !.gameState.emergenciesAccepted = @ + 1])]
                         /\ ack' = Ack("emergencyMeeting", s, ReplyOk)
                         /\ emits' = << Emit("meetingCalled", data.roomCode,
                                             data.playerId, "emergency") >>
                 /\ UNCHANGED <<playerSockets, connected, nextSock, nextId, now,
                                voteRateLimit, crashed>>

\* socket.on('emergencyMeeting')
EmergencyMeeting(s) ==
    /\ ~crashed
    /\ UNCHANGED teamVars
    /\ s \in connected
    /\ IF s \notin DOMAIN playerSockets THEN Reply("emergencyMeeting", s, ReplyNone)
       ELSE LET data == playerSockets[s] IN
            IF now - GetOr0(emergencyRateLimit, s) < EMERGENCY_COOLDOWN
            THEN Reply("emergencyMeeting", s, "Emergency cooldown active")
            ELSE IF data.roomCode \notin DOMAIN rooms THEN Throw("emergencyMeeting", s)
            ELSE LET room == rooms[data.roomCode] IN
                 IF \/ ~HasPlayer(room.players, data.playerId)
                    \/ ~GetPlayer(room.players, data.playerId).isAlive
                    \/ room.gameState.emergencyCalled
                 THEN Reply("emergencyMeeting", s, "Emergency cooldown active")
                 ELSE /\ emergencyRateLimit' = MapSet(emergencyRateLimit, s, now)
                      /\ rooms' = [rooms EXCEPT ![data.roomCode] =
                                      EnterMeeting([room EXCEPT
                                          !.gameState.emergencyCalled = TRUE,
                                          !.gameState.emergenciesAccepted = @ + 1])]
                      /\ ack' = Ack("emergencyMeeting", s, ReplyOk)
                      /\ emits' = << Emit("meetingCalled", data.roomCode, data.playerId, "emergency") >>
                      /\ UNCHANGED <<playerSockets, connected, nextSock, nextId, now,
                                     voteRateLimit, crashed>>

\* the target check of vote: 'skip' and null pass, an id must name an alive player
VoteTargetValid(ps, targetId) ==
    \/ targetId.kind # "id"
    \/ /\ HasPlayer(ps, targetId.id)
       /\ GetPlayer(ps, targetId.id).isAlive

\* player.votedFor = targetId; room.gameState.votes[player.id] = targetId
RecordVote(room, playerId, targetId) ==
    LET i == IndexOfKey(room.players, playerId) IN
    [room EXCEPT !.players[i].votedFor = targetId,
                 !.gameState.votes = MapSet(@, room.players[i].id, targetId)]

\* socket.on('vote')
Vote(s, targetId) ==
    /\ ~crashed
    /\ UNCHANGED teamVars
    /\ s \in connected
    /\ IF s \notin DOMAIN playerSockets THEN Reply("vote", s, ReplyNone)
       ELSE LET data == playerSockets[s] IN
            IF now - GetOr0(voteRateLimit, s) < VOTE_COOLDOWN
            THEN Reply("vote", s, "Vote too fast")
            ELSE IF data.roomCode \notin DOMAIN rooms THEN Throw("vote", s)
            ELSE LET room == rooms[data.roomCode] IN
                 IF \/ ~HasPlayer(room.players, data.playerId)
                    \/ ~GetPlayer(room.players, data.playerId).isAlive
                    \/ ~room.gameState.meetingActive
                 THEN Reply("vote", s, ReplyNone)
                 ELSE IF ~VoteTargetValid(room.players, targetId)
                 THEN Reply("vote", s, "Invalid vote target")
                 ELSE /\ voteRateLimit' = MapSet(voteRateLimit, s, now)
                      /\ rooms' = [rooms EXCEPT ![data.roomCode] =
                                      RecordVote(room, data.playerId, targetId)]
                      /\ ack' = Ack("vote", s, ReplyOk)
                      /\ emits' = << >>
                      /\ UNCHANGED <<playerSockets, connected, nextSock, nextId, now,
                                     emergencyRateLimit, crashed>>

\* a skipVote that does not look at the rate limit
SkipVoteNoLimit(s) ==
    /\ ~crashed
    /\ UNCHANGED teamVars
    /\ s \in connected
    /\ IF s \notin DOMAIN playerSockets THEN Reply("skipVote", s, ReplyNone)
       ELSE LET data == playerSockets[s] IN
            IF data.roomCode \notin DOMAIN rooms THEN Throw("skipVote", s)
            ELSE LET room == rooms[data.roomCode] IN
                 IF \/ ~HasPlayer(room.players, data.playerId)
                    \/ ~GetPlayer(room.players, data.playerId).isAlive
                    \/ ~room.gameState.meetingActive
                 THEN Reply("skipVote", s, ReplyNone)
                 ELSE /\ voteRateLimit' = MapSet(voteRateLimit, s, now)
                      /\ rooms' = [rooms EXCEPT ![data.roomCode] =
                                      RecordVote(room, data.playerId, VSkip)]
                      /\ ack' = Ack("skipVote", s, ReplyOk)
                      /\ emits' = << >>
                      /\ UNCHANGED <<playerSockets, connected, nextSock, nextId, now,
                                     emergencyRateLimit, crashed>>

\* socket.on('skipVote')
SkipVote(s) ==
    /\ ~crashed
    /\ UNCHANGED teamVars
    /\ s \in connected
    /\ IF s \notin DOMAIN playerSockets THEN Reply("skipVote", s, ReplyNone)
       ELSE LET data == playerSockets[s] IN
            IF now - GetOr0(voteRateLimit, s) < VOTE_COOLDOWN
            THEN Reply("skipVote", s, "Vote too fast")
            ELSE IF data.roomCode \notin DOMAIN rooms THEN Throw("skipVote", s)
            ELSE LET room == rooms[data.roomCode] IN
                 IF \/ ~HasPlayer(room.players, data.playerId)
                    \/ ~GetPlayer(room.players, data.playerId).isAlive
                    \/ ~room.gameState.meetingActive
                 THEN Reply("skipVote", s, ReplyNone)
                 ELSE /\ voteRateLimit' = MapSet(voteRateLimit, s, now)
                      /\ rooms' = [rooms EXCEPT ![data.roomCode] =
                                      RecordVote(room, data.playerId, VSkip)]
                      /\ ack' = Ack("skipVote", s, ReplyOk)
                      /\ emits' = << >>
                      /\ UNCHANGED <<playerSockets, connected, nextSock, nextId, now,
                                     emergencyRateLimit, crashed>>

RECURSIVE FindTask(_, _, _, _)
\* room.gameState.tasks.find(t => t.id === taskId && t.assignedTo === player.id):
\* the index of the first such task from index i on, 0 when there is none
FindTask(tasks, taskId, playerId, i) ==
    IF i > Len(tasks) THEN 0
    ELSE IF tasks[i].id = taskId /\ tasks[i].assignedTo = playerId THEN i
    ELSE FindTask(tasks, taskId, playerId, i + 1)

RECURSIVE CountCompleted(_)
\* tasks.filter(t => t.completed && t.assignedTo !== 'imposter').length
\* (assignedTo holds a player id, never the string 'imposter')
CountCompleted(tasks) ==
    IF tasks = <<>> THEN 0
    ELSE (IF Head(tasks).completed THEN 1 ELSE 0) + CountCompleted(Tail(tasks))

\* socket.on('completeTask')
CompleteTask(s, taskId) ==
    /\ ~crashed
    /\ UNCHANGED teamVars
    /\ s \in connected
    /\ IF s \notin DOMAIN playerSockets THEN Reply("completeTask", s, ReplyNone)
       ELSE LET data == playerSockets[s] IN
            IF data.roomCode \notin DOMAIN rooms THEN Throw("completeTask", s)
            ELSE LET room == rooms[data.roomCode] IN
                 IF \/ ~HasPlayer(room.players, data.playerId)
                    \/ ~GetPlayer(room.players, data.playerId).isAlive
                    \/ GetPlayer(room.players, data.playerId).role = "imposter"
                 THEN Reply("completeTask", s, ReplyNone)
                 ELSE
                 LET pi == IndexOfKey(room.players, data.playerId)
                     player == room.players[pi]
                     ti == FindTask(room.gameState.tasks, taskId, player.id, 1)
                 IN  IF ti = 0 THEN Reply("completeTask", s, "success: false")
                     ELSE IF room.gameState.tasks[ti].completed
                     THEN Reply("completeTask", s, ReplyOk)
                     ELSE
                     LET tasks1 == [room.gameState.tasks EXCEPT ![ti].completed = TRUE]
                         progress == CountCompleted(tasks1)
                         won == progress >= room.gameState.totalTasks
                     IN  /\ rooms' = [rooms EXCEPT ![data.roomCode] =
                                [room EXCEPT
                                    !.players[pi].completedTasks = @ + 1,
                                    !.gameState = [@ EXCEPT
                                        !.tasks = tasks1,
                                        !.taskProgress = progress,
                                        !.phase = IF won THEN PHASE.GAME_OVER ELSE @,
                                        !.winnersAnnounced =
                                            IF won THEN @ \cup {"crewmates"} ELSE @]]]
                         /\ ack' = Ack("completeTask", s, ReplyOk)
                         /\ emits' = IF won
                                     THEN << Emit("gameOver", data.roomCode, 0, "crewmates") >>
                                     ELSE << >>
                         /\ UNCHANGED <<playerSockets, connected, nextSock, nextId, now,
                                        emergencyRateLimit, voteRateLimit, crashed>>

\* the reply of killPlayer's checks, in the order the handler makes them;
\* cooldown timestamps are kept in milliseconds (the code keeps Date.now() / 1000)
KillReply(room, playerId, targetId, t) ==
    LET ps == room.players IN
    IF \/ ~HasPlayer(ps, playerId)
       \/ GetPlayer(ps, playerId).role # "imposter"
       \/ ~GetPlayer(ps, playerId).isAlive
    THEN "Cannot kill"
    ELSE IF \/ ~HasPlayer(ps, targetId)
            \/ ~GetPlayer(ps, targetId).isAlive
            \/ GetPlayer(ps, targetId).role = "imposter"
    THEN "Invalid target"
    ELSE IF ~room.gameState.hasKillCooldowns THEN ReplyThrow
    ELSE IF t - GetOr0(room.gameState.imposterKillCooldowns, GetPlayer(ps, playerId).id)
              < room.settings.killCooldown * 1000
    THEN "Kill cooldown active"
    ELSE LET dx == GetPlayer(ps, playerId).x - GetPlayer(ps, targetId).x
             dy == GetPlayer(ps, playerId).y - GetPlayer(ps, targetId).y
         IN  IF dx * dx + dy * dy > KillRange * KillRange THEN "Target too far"
             ELSE ReplyOk

\* the win check of killPlayer: impostors win when they are at least as many
KillWinner(gs, ps) ==
    IF CountAlive(gs.imposters, ps) >= CountAlive(gs.crewmates, ps)
    THEN "imposters" ELSE "none"

\* socket.on('killPlayer')
KillPlayer(s, targetId) ==
    /\ ~crashed
    /\ UNCHANGED teamVars
    /\ s \in connected
    /\ IF s \notin DOMAIN playerSockets THEN Reply("killPlayer", s, ReplyNone)
       ELSE LET data == playerSockets[s] IN
            IF data.roomCode \notin DOMAIN rooms THEN Throw("killPlayer", s)
            ELSE LET room == rooms[data.roomCode]
                     reply == KillReply(room, data.playerId, targetId, now)
                 IN
                 IF reply = ReplyThrow THEN Throw("killPlayer", s)
                 ELSE IF reply # ReplyOk THEN Reply("killPlayer", s, reply)
                 ELSE
                 LET ti == IndexOfKey(room.players, targetId)
                     killer == GetPlayer(room.players, data.playerId)
                     ps1 == [room.players EXCEPT ![ti].isAlive = FALSE]
                     gs1 == [room.gameState EXCEPT
                                !.imposterKillCooldowns = MapSet(@, killer.id, now)]
                     winner == KillWinner(gs1, ps1)
                 IN  /\ rooms' = [rooms EXCEPT ![data.roomCode] =
                            [room EXCEPT
                                !.players = ps1,
                                !.gameState = IF winner = "none" THEN gs1
                                              ELSE [gs1 EXCEPT !.phase = PHASE.GAME_OVER,
                                                               !.winnersAnnounced = @ \cup {winner}]]]
                     /\ ack' = Ack("killPlayer", s, ReplyOk)
                     /\ emits' = << Emit("playerKilled", data.roomCode, targetId, "") >>
                                 \o (IF winner = "none" THEN << >>
                                     ELSE << Emit("gameOver", data.roomCode, 0, winner) >>)
                     /\ UNCHANGED <<playerSockets, connected, nextSock, nextId, now,
                                    emergencyRateLimit, voteRateLimit, crashed>>

\* the respawn loop of endMeeting: spawn[i] is the spawn point index and the
\* jitter Math.random() drew for the player at roster index i
Respawn(ps, spawn) ==
    [i \in 1..Len(ps) |->
        IF ps[i].isAlive
        THEN [ps[i] EXCEPT !.votedFor = VNull,
                           !.x = SpawnPoints[spawn[i].point].x + spawn[i].jx,
                           !.y = SpawnPoints[spawn[i].point].y + spawn[i].jy]
        ELSE [ps[i] EXCEPT !.votedFor = VNull]]

\* an endMeeting that puts the kill cooldown back to its default
MeetingEndedDefaults(room, spawn) ==
    [room EXCEPT
        !.gameState = [@ EXCEPT !.meetingActive = FALSE, !.phase = PHASE.TASKS,
                                !.bodyReported = FALSE, !.emergencyCalled = FALSE,
                                !.votes = << >>],
        !.players = Respawn(room.players, spawn),
        !.settings = [@ EXCEPT !.killCooldown = DefaultKillCooldown]]

\* the room after endMeeting: the handler reads no vote and checks no phase
MeetingEnded(room, spawn) ==
    [room EXCEPT
        !.gameState = [@ EXCEPT !.meetingActive = FALSE, !.phase = PHASE.TASKS,
                                !.bodyReported = FALSE, !.emergencyCalled = FALSE,
                                !.votes = << >>],
        !.players = Respawn(room.players, spawn)]

\* socket.on('endMeeting'): ejected is results.ejected as the client sent it
\* (0: none), spawns the respawn draws Math.random() can make for one player
EndMeeting(s, ejected, spawns) ==
    /\ ~crashed
    /\ UNCHANGED teamVars
    /\ s \in connected
    /\ IF s \notin DOMAIN playerSockets THEN Reply("endMeeting", s, ReplyNone)
       ELSE LET data == playerSockets[s] IN
            IF data.roomCode \notin DOMAIN rooms THEN Throw("endMeeting", s)
            ELSE LET room == rooms[data.roomCode] IN
                 IF room.gameState.map # "skeld"
                    /\ \E i \in 1..Len(room.players) : room.players[i].isAlive
                 THEN Throw("endMeeting", s)
                 ELSE \E spawn \in [1..Len(room.players) -> spawns] :
                      /\ rooms' = [rooms EXCEPT ![data.roomCode] = MeetingEnded(room, spawn)]
                      /\ ack' = Ack("endMeeting", s, ReplyApplied)
                      /\ emits' = << Emit("meetingEnded", data.roomCode, ejected, "") >>
                      /\ UNCHANGED <<playerSockets, connected, nextSock, nextId, now,
                                     emergencyRateLimit, voteRateLimit, crashed>>

----------------------------------------------------------------------------
(* Inputs: what clients send and what Math.random() draws *)

\* codes generateRoomCode() can return, and what a client can type for them
CodeTable == << <<"K","7","Q">>, <<"M","2","X">>, <<"Z","9","B">> >>
GenCodes(n) == {CodeTable[i] : i \in 1..Min(n, Len(CodeTable))}
LowerCase(str) == [i \in 1..Len(str) |-> ToLower(str[i])]
TypedCodes(n) == GenCodes(n) \cup {LowerCase(c) : c \in GenCodes(n)}

\* player names a client can send
NameBlank == << " ", " " >>
NamePadded == << " ", "A", "l", " " >>
NameData == << "D", "a", "T", "a", ":", "x" >>
\* 18 characters: the pattern starts at character 13 and is cut by slice(0, 15)
NameLongCut == << "a","a","a","a","a","a","a","a","a","a","a","a","d","a","t","a",":","b" >>
\* 18 characters: the pattern lies inside the first 15
NameLongScript == << "<","S","c","R","i","P","t",">","a","a","a","a","a","a","a","a","a","a" >>
NameInputs == { << >>, NameBlank, NamePadded, NameData, NameLongCut, NameLongScript }

\* the settings object of createRoom (0 and "" stand for absent fields)
Settings(maxPlayers, killCooldown, map) ==
    [maxPlayers |-> maxPlayers, killCooldown |-> killCooldown, emergencyCooldown |-> 0,
     discussionTime |-> 0, votingTime |-> 0, map |-> map]

\* one crewmate's task draw: three tasks of the first three templates
DrawDistinct == << 1, 2, 3 >>
\* five tasks, the first template drawn twice
DrawRepeated == << 1, 1, 2, 4, 5 >>

\* endMeeting's draw for one player: a spawn point and no jitter
SpawnAt(point) == [point |-> point, jx |-> 0, jy |-> 0]

----------------------------------------------------------------------------
(* The registry: rooms are created, joined and left by a few connections *)

RegSockets == 2
RegMaxIds == 3
RegCodes == 2

RegSettings == { Settings(2, 0, "") }
\* one valid and one blank name
RegNames == {NamePadded, NameBlank}

NextRegistry ==
    \/ nextSock <= RegSockets /\ Connect
    \/ \E s \in connected : Disconnect(s)
    \/ \E s \in connected : LeaveRoom(s)
    \/ \E s \in connected, c \in GenCodes(RegCodes), st \in RegSettings :
            CreateRoom(s, c, st)
    \/ \E s \in connected, c \in TypedCodes(RegCodes), n \in RegNames :
            /\ JoinReply(rooms, c, n) = ReplyOk => nextId <= RegMaxIds
            /\ JoinRoom(s, c, n, "", 0, 0)
    \/ \E s \in connected : StartGame(s, {DrawDistinct})

SpecRegistry == Init /\ [][NextRegistry]_vars

\* the steps that run handleDisconnect
LeaveEvents == {"leaveRoom", "disconnect"}

\* C7: after any leave or disconnect that removes the last player of a room, the
\* room is no longer in the registry.
C7_EmptyRoomDestroyed ==
    [][\A c \in DOMAIN rooms :
          (/\ ack'.ev \in LeaveEvents
           /\ Len(rooms[c].players) > 0
           /\ c \in DOMAIN rooms' => Len(rooms'[c].players) = 0)
              => c \notin DOMAIN rooms']_vars

\* C8: createRoom never returns the code of a live room, so creating a room
\* leaves every room of the registry in place and unaltered.
C8_CreateKeepsLiveRooms ==
    [][ack'.ev = "createRoom" =>
          /\ Cardinality(DOMAIN rooms') = Cardinality(DOMAIN rooms) + 1
          /\ \A c \in DOMAIN rooms : rooms'[c] = rooms[c]]_vars

\* C9: when the host of a room leaves or disconnects and the room still has
\* players, the host afterwards is the connection of one of the remaining players.
C9_HostReassigned ==
    [][\A c \in DOMAIN rooms :
          (/\ ack'.ev \in LeaveEvents
           /\ ack'.sock = rooms[c].host
           /\ c \in DOMAIN rooms'
           /\ Len(rooms'[c].players) > 0)
              => \E i \in 1..Len(rooms'[c].players) :
                     rooms'[c].players[i].socketId = rooms'[c].host]_vars

----------------------------------------------------------------------------
(* Game start: one room, every connection joins once, the host starts the game *)

StartMaxPlayers == 9
\* the largest roster on which the host also restarts a running round
StartRestartMax == 5

StartCode == CodeTable[1]
StartDraws == { DrawDistinct, DrawRepeated }

\* the room a bound connection is in
RoomOf(s) == rooms[playerSockets[s].roomCode]
InLiveRoom(s) == s \in DOMAIN playerSockets /\ playerSockets[s].roomCode \in DOMAIN rooms

\* the connections that also send startGame to a room whose round runs
StartGuests == {2}

NextStart ==
    \/ /\ nextSock <= StartMaxPlayers
       /\ \A s \in connected : s \in DOMAIN playerSockets
       /\ Connect
    \/ rooms = << >> /\ 1 \in connected /\ CreateRoom(1, StartCode, Settings(0, 0, ""))
    \/ \E s \in connected :
            /\ s = nextId
            /\ JoinRoom(s, StartCode, NamePadded, "", 0, 0)
    \/ \E s \in connected :
            /\ InLiveRoom(s) =>
                    \/ RoomOf(s).gameState.phase = PHASE.LOBBY
                    \/ s \in StartGuests
                    \/ Len(RoomOf(s).players) <= StartRestartMax
            /\ StartGame(s, StartDraws)

SpecStart == Init /\ [][NextStart]_vars

\* the players of a roster with a given role, by roster index
WithRole(ps, role) == {i \in 1..Len(ps) : ps[i].role = role}

\* the tasks whose assigned player is in the roster with the role crewmate
CrewmateTasks(room) ==
    {i \in 1..Len(room.gameState.tasks) :
        \E j \in 1..Len(room.players) :
            /\ room.players[j].key = room.gameState.tasks[i].assignedTo
            /\ room.players[j].role = "crewmate"}

StartAccepted == ack.ev = "startGame" /\ ack.reply = ReplyOk

\* C1: after every accepted startGame on a roster of N players, exactly 1 player
\* is impostor when N <= 5, exactly 2 when 6 <= N <= 8 and exactly 3 when N >= 9,
\* every other player is crewmate, and totalTasks is the number of tasks of the
\* round whose assigned player is a crewmate.
C1_TieredRolesAndTotalTasks ==
    StartAccepted =>
        LET room == RoomOf(ack.sock)
            N == Len(room.players)
            tier == IF N <= 5 THEN 1 ELSE IF N <= 8 THEN 2 ELSE 3
        IN  /\ Cardinality(WithRole(room.players, "imposter")) = tier
            /\ Cardinality(WithRole(room.players, "crewmate")) = N - tier
            /\ room.gameState.totalTasks = Cardinality(CrewmateTasks(room))

\* C1 witness: a game started on 9 players with 3 impostors, the six crewmates
\* holding task lists of both lengths
C1_Witness ==
    /\ StartAccepted
    /\ Len(RoomOf(ack.sock).players) = 9
    /\ Cardinality(WithRole(RoomOf(ack.sock).players, "imposter")) = 3
    /\ RoomOf(ack.sock).gameState.totalTasks \in 19..29

\* the state of a room that startGame can write
RoundState(room) == <<room.gameState, room.players, room.host, room.settings>>

\* startGame from connection s of a room is due a rejection: s is not the host
\* of its room, or the roster of its room has fewer than 4 players
StartUnauthorized(s) ==
    /\ InLiveRoom(s)
    /\ \/ RoomOf(s).host # s
       \/ Len(RoomOf(s).players) < 4

\* C2: a startGame sent by a connection that is not its room's host, or while the
\* roster has fewer than 4 players, is answered with a failure ack and leaves
\* the phase, roles, tasks, flags and cooldowns of the room (and every other
\* room and binding) unchanged.
C2_RejectedStartChangesNothing ==
    [][\A s \in connected :
          (ack'.ev = "startGame" /\ ack'.sock = s /\ StartUnauthorized(s))
              => /\ IsFailure(ack')
                 /\ RoundState(rooms'[playerSockets[s].roomCode]) = RoundState(RoomOf(s))
                 /\ rooms' = rooms
                 /\ playerSockets' = playerSockets]_vars

\* C2 witness: a player who is not the host was refused the restart of a round
\* that runs on at least 4 players
C2_Witness ==
    /\ ack.ev = "startGame"
    /\ IsFailure(ack)
    /\ StartUnauthorized(ack.sock)
    /\ Len(RoomOf(ack.sock).players) >= 4
    /\ RoomOf(ack.sock).gameState.phase = PHASE.TASKS
    /\ RoomOf(ack.sock).gameState.totalTasks > 0

\* C2 witness of the other rejection: the host was refused on 3 players
C2_WitnessSmallRoster ==
    /\ ack.ev = "startGame"
    /\ ack.reply = "Need at least 4 players"
    /\ RoomOf(ack.sock).host = ack.sock
    /\ Len(RoomOf(ack.sock).players) = 3

----------------------------------------------------------------------------
(* Joining: one room of 2 or 5 places, joined under every name and code form,
   before and after the host starts the game *)

JoinSockets == 5

JoinCode == CodeTable[1]
\* the code of the room in both cases, and a code no room has
JoinTypedCodes == TypedCodes(1) \cup {CodeTable[2]}
JoinSettings == { Settings(2, 0, ""), Settings(5, 0, "") }

\* the names a connection sends: the second connection the long and the
\* script-like ones, the others the short and the blank ones
JoinNames(s) ==
    IF s = 2 THEN {NameData, NameLongCut, NameLongScript}
    ELSE {<< >>, NameBlank, NamePadded}

NextJoin ==
    \/ /\ nextSock <= JoinSockets
       /\ \A s \in connected : s \in DOMAIN playerSockets
       /\ Connect
    \/ \E st \in JoinSettings :
            rooms = << >> /\ 1 \in connected /\ CreateRoom(1, JoinCode, st)
    \/ \E s \in connected, c \in JoinTypedCodes :
            \E n \in JoinNames(s) :
                /\ s \notin DOMAIN playerSockets \/ s = 1
                /\ JoinRoom(s, c, n, "", 0, 0)
    \/ \E s \in connected :
            /\ InLiveRoom(s) => RoomOf(s).gameState.phase = PHASE.LOBBY
            /\ StartGame(s, {DrawDistinct})

SpecJoin == Init /\ [][NextJoin]_vars

\* a name is valid: trimmed and cut to 15 characters it is not empty and holds
\* none of the rejected substrings
ValidName(n) ==
    LET t == Slice0(Trim(n), NameCap) IN
    /\ Len(t) > 0
    /\ \A pat \in OffensivePatterns : ~ContainsI(t, pat)

\* the conditions of an accepted joinRoom(c, n)
JoinAdmissible(c, n) ==
    /\ ToUpperCase(c) \in DOMAIN rooms
    /\ Len(rooms[ToUpperCase(c)].players) < rooms[ToUpperCase(c)].settings.maxPlayers
    /\ rooms[ToUpperCase(c)].gameState.phase = PHASE.LOBBY
    /\ ValidName(n)

\* this step added one new player of connection s to the room of code c, under
\* the sanitized name, and bound s to it
Joined(s, c, n) ==
    LET code == ToUpperCase(c)
        old == rooms[code].players
        new == rooms'[code].players
    IN  /\ ack'.reply = ReplyOk
        /\ DOMAIN rooms' = DOMAIN rooms
        /\ Len(new) = Len(old) + 1
        /\ SubSeq(new, 1, Len(old)) = old
        /\ new[Len(new)].key \notin PlayerKeys(old)
        /\ new[Len(new)].socketId = s
        /\ new[Len(new)].name = Slice0(Trim(n), NameCap)
        /\ new[Len(new)].role = "crewmate" /\ new[Len(new)].isAlive
        /\ rooms'[code].gameState = rooms[code].gameState
        /\ rooms'[code].host = rooms[code].host
        /\ \A d \in (DOMAIN rooms) \ {code} : rooms'[d] = rooms[d]
        /\ playerSockets' = MapSet(playerSockets, s,
                                   [roomCode |-> code, playerId |-> new[Len(new)].key])

\* this step refused joinRoom(c, n) with the failure of an unmet condition and
\* changed neither the registry, nor a roster, nor a binding
JoinRefused(c, n) ==
    LET code == ToUpperCase(c) IN
    /\ \/ ack'.reply = "Room not found" /\ code \notin DOMAIN rooms
       \/ /\ ack'.reply = "Room is full"
          /\ code \in DOMAIN rooms
          /\ Len(rooms[code].players) >= rooms[code].settings.maxPlayers
       \/ /\ ack'.reply = "Game already in progress"
          /\ code \in DOMAIN rooms
          /\ rooms[code].gameState.phase # PHASE.LOBBY
       \/ /\ ack'.reply \in {"Player name cannot be empty", "Invalid player name"}
          /\ ~ValidName(n)
    /\ rooms' = rooms
    /\ playerSockets' = playerSockets
    /\ nextId' = nextId

\* C5: joinRoom adds a new player to the roster and binds the connection to it
\* if and only if the room code exists, the roster is below maxPlayers, the phase
\* is Lobby and the name is valid; in every other case it answers with a failure
\* (room not found, room full, game in progress, invalid name) and leaves the
\* registry, the rosters and the bindings unchanged.
C5_JoinIffAdmissible ==
    [][ack'.ev = "joinRoom" =>
          \A c \in JoinTypedCodes, n \in NameInputs :
              JoinRoom(ack'.sock, c, n, "", 0, 0)
                  => IF JoinAdmissible(c, n) THEN Joined(ack'.sock, c, n)
                     ELSE JoinRefused(c, n)]_vars

\* C5 witness: a fifth connection was refused the room whose game runs on 4 of
\* its 5 places
C5_Witness ==
    /\ ack.ev = "joinRoom"
    /\ ack.reply = "Game already in progress"
    /\ ack.sock \notin DOMAIN playerSockets
    /\ Len(rooms[JoinCode].players) = 4
    /\ rooms[JoinCode].settings.maxPlayers = 5
    /\ rooms[JoinCode].gameState.phase = PHASE.TASKS

\* C5 witness of the accepted case: the second place of a room was taken under a
\* name cut to 15 characters
C5_WitnessJoined ==
    /\ ack.ev = "joinRoom"
    /\ ack.reply = ReplyOk
    /\ Len(rooms[JoinCode].players) = 2
    /\ Len(rooms[JoinCode].players[2].name) = NameCap
    /\ playerSockets[ack.sock].playerId = rooms[JoinCode].players[2].key

----------------------------------------------------------------------------
(* One game: four connections join one room and play *)

GamePlayers == 4
GameTicks == 1

GameCode == CodeTable[1]
\* the kill cooldown is set to one second, the clock advances by one second
GameSettings == Settings(0, 1, "")
GameTickMs == VOTE_COOLDOWN
GameMoves == { << 400, 300 >> }
GameTaskIds == { TaskTemplates[1] }
GameVoteTargets == { VId(1) }

\* who sends what: the host (connection 1) starts games and calls and ends
\* meetings, connections 1 and 2 move and vote, 3 works on tasks, 4 leaves
GameHosts == {1}
GameMovers == {1}
GameVoters == {2}
GameWorkers == {3}
GameLeavers == {4}

\* the connection's player is in its room with the given role (the client shows
\* the kill button to impostors only)
HoldsRole(s, role) ==
    /\ InLiveRoom(s)
    /\ HasPlayer(RoomOf(s).players, playerSockets[s].playerId)
    /\ GetPlayer(RoomOf(s).players, playerSockets[s].playerId).role = role

NextGame ==
    \/ /\ nextSock <= GamePlayers
       /\ \A s \in connected : s \in DOMAIN playerSockets
       /\ Connect
    \/ rooms = << >> /\ 1 \in connected /\ CreateRoom(1, GameCode, GameSettings)
    \/ \E s \in connected :
            /\ s = nextId
            /\ JoinRoom(s, GameCode, NamePadded, "", 0, 0)
    \/ \E s \in connected \cap GameHosts :
            /\ InLiveRoom(s) => RoomOf(s).gameState.phase = PHASE.LOBBY
            /\ StartGame(s, {DrawDistinct})
    \/ \E s \in connected \cap GameMovers, m \in GameMoves : PlayerMove(s, m[1], m[2])
    \/ \E s \in connected, t \in 1..GamePlayers :
            /\ HoldsRole(s, "imposter")
            /\ KillPlayer(s, t)
    \/ \E s \in connected \cap GameVoters : ReportBody(s)
    \/ \E s \in connected \cap GameHosts : EmergencyMeeting(s)
    \/ \E s \in connected \cap GameVoters, t \in GameVoteTargets : Vote(s, t)
    \/ \E s \in connected \cap GameVoters : SkipVote(s)
    \/ \E s \in connected \cap GameWorkers, t \in GameTaskIds : CompleteTask(s, t)
    \/ \E s \in connected \cap GameHosts : EndMeeting(s, 0, {SpawnAt(1)})
    \/ \E s \in connected \cap GameLeavers : LeaveRoom(s)
    \/ /\ InLiveRoom(1)
       /\ RoomOf(1).gameState.phase = PHASE.TASKS
       /\ \E k \in DOMAIN RoomOf(1).gameState.imposterKillCooldowns :
              RoomOf(1).gameState.imposterKillCooldowns[k] = now
       /\ now < StartTime + GameTicks * GameTickMs
       /\ Tick(GameTickMs)

SpecGame == Init /\ [][NextGame]_vars

\* what a leave can write: the registry with the rosters, hosts, role rosters and
\* phases of its rooms, and the bindings
AfterLeave(R, PS, s) ==
    LET res == HandleDisconnect(R, PS, s) IN <<res.rooms, res.playerSockets>>

\* C6: in every reachable state and for every connection, handling leaveRoom or
\* disconnect twice in a row yields the same registry, rosters, hosts, role
\* rosters, phases and bindings as handling it once, and the second handling
\* broadcasts nothing.
C6_LeaveIdempotent ==
    \A s \in connected :
        LET once == HandleDisconnect(rooms, playerSockets, s)
            twice == HandleDisconnect(once.rooms, once.playerSockets, s)
        IN  /\ twice.rooms = once.rooms
            /\ twice.playerSockets = once.playerSockets
            /\ twice.emits = << >>

\* C6 witness: an alive player has left a round in progress, the room lives on
\* with the other players, and leaving again changes nothing
C6_Witness ==
    /\ ack.ev = "leaveRoom"
    /\ ack.reply = ReplyApplied
    /\ ack.sock \notin DOMAIN playerSockets
    /\ \E c \in DOMAIN rooms :
          /\ Len(rooms[c].players) = GamePlayers - 1
          /\ rooms[c].gameState.phase \in {PHASE.TASKS, PHASE.MEETING}
          /\ Len(rooms[c].gameState.imposters) + Len(rooms[c].gameState.crewmates)
                 = GamePlayers - 1
    /\ AfterLeave(rooms, playerSockets, ack.sock) = <<rooms, playerSockets>>

\* a room's phase changed from `from` in this step
PhaseLeft(c, from) ==
    /\ rooms[c].gameState.phase = from
    /\ c \in DOMAIN rooms'
    /\ rooms'[c].gameState.phase # from

\* C3: the phase of a room in Lobby changes only by a startGame accepted from
\* the host with at least 4 players; no other event sent by a member changes it.
C3_LobbyLeftOnlyByStart ==
    [][\A c \in DOMAIN rooms :
          PhaseLeft(c, PHASE.LOBBY)
              => /\ ack'.ev = "startGame"
                 /\ ack'.reply = ReplyOk
                 /\ ack'.sock = rooms[c].host
                 /\ Len(rooms[c].players) >= 4]_vars

\* C4: once the phase of a room is GameOver it stays GameOver under every
\* event until an accepted startGame resets the round.
C4_GameOverTerminal ==
    [][\A c \in DOMAIN rooms :
          PhaseLeft(c, PHASE.GAME_OVER)
              => ack'.ev = "startGame" /\ ack'.reply = ReplyOk]_vars

\* the alive players of a role roster, the player with key e counted out
AliveBut(ids, ps, e) ==
    Cardinality({i \in 1..Len(ps) :
        /\ ps[i].isAlive
        /\ ps[i].key # e
        /\ \E k \in 1..Len(ids) : ids[k] = ps[i].key})

\* the votes a meeting recorded for a target
VotesFor(room, target) ==
    Cardinality({v \in DOMAIN room.gameState.votes : room.gameState.votes[v] = target})

\* the alive player who holds strictly more votes than every other player and
\* than skip: the player the close of the meeting ejects (0: nobody)
Ejected(room) ==
    LET top == {i \in 1..Len(room.players) :
                  /\ room.players[i].isAlive
                  /\ \A t \in {VSkip} \cup {VId(room.players[j].key) :
                                               j \in (1..Len(room.players)) \ {i}} :
                        VotesFor(room, VId(room.players[i].key)) > VotesFor(room, t)}
    IN  IF top = {} THEN 0 ELSE room.players[CHOOSE i \in top : TRUE].key

\* the win condition holds on a room, the player with key e counted out
WinnerBut(room, e) ==
    IF AliveBut(room.gameState.imposters, room.players, e) = 0 THEN "crewmates"
    ELSE IF AliveBut(room.gameState.imposters, room.players, e)
               >= AliveBut(room.gameState.crewmates, room.players, e) THEN "imposters"
    ELSE "none"

\* the room is over and the win of the faction was announced in this step
GameOverFor(c, winner) ==
    /\ rooms'[c].gameState.phase = PHASE.GAME_OVER
    /\ \E k \in 1..Len(emits') :
          emits'[k] = Emit("gameOver", c, 0, winner)

\* C10: after any successful kill, and after any meeting closed with a player
\* voted out, the phase is GameOver with winner impostors if the alive impostors
\* are at least as many as the alive crewmates, and GameOver with winner
\* crewmates if no impostor is alive.
C10_WinAfterKillOrEjection ==
    [][\A c \in DOMAIN rooms :
          /\ (/\ ack'.ev = "killPlayer"
              /\ ack'.reply = ReplyOk
              /\ playerSockets[ack'.sock].roomCode = c
              /\ WinnerBut(rooms'[c], 0) # "none")
                  => GameOverFor(c, WinnerBut(rooms'[c], 0))
          /\ (/\ ack'.ev = "endMeeting"
              /\ ack'.reply = ReplyApplied
              /\ playerSockets[ack'.sock].roomCode = c
              /\ rooms[c].gameState.phase = PHASE.MEETING
              /\ Len(rooms[c].gameState.imposters) > 0
              /\ Ejected(rooms[c]) # 0
              /\ WinnerBut(rooms'[c], Ejected(rooms[c])) # "none")
                  => GameOverFor(c, WinnerBut(rooms'[c], Ejected(rooms[c])))]_vars

----------------------------------------------------------------------------
(* A round with a cheating client: connection 2 also sends updatePlayer with
   fields of its own choice *)

CheatPlayers == 4
CheatTicks == 1

CheatCode == CodeTable[1]
CheatSettings == Settings(0, 1, "")
\* the payloads of updatePlayer: a role, the id of the first player, and isAlive
CheatUpdates == { [role |-> "imposter"], [id |-> 1], [isAlive |-> TRUE] }
CheatKillers == {1, 2}
CheatHosts == {1}
CheatClients == {2}
CheatMovers == {1, 3}
CheatVoteTargets == {VId(3)}
\* one step of the clock: the kill cooldown of the room
CheatTickMs == CheatSettings.killCooldown * 1000

NextCheat ==
    \/ /\ nextSock <= CheatPlayers
       /\ \A s \in connected : s \in DOMAIN playerSockets
       /\ Connect
    \/ rooms = << >> /\ 1 \in connected /\ CreateRoom(1, CheatCode, CheatSettings)
    \/ \E s \in connected :
            /\ s = nextId
            /\ JoinRoom(s, CheatCode, NamePadded, "", 0, 0)
    \/ \E s \in connected \cap CheatHosts :
            /\ InLiveRoom(s) => RoomOf(s).gameState.phase = PHASE.LOBBY
            /\ StartGame(s, {DrawDistinct})
    \/ \E s \in connected \cap CheatClients, u \in CheatUpdates :
            /\ InLiveRoom(s) /\ RoomOf(s).gameState.phase # PHASE.LOBBY
            /\ UpdatePlayer(s, u)
    \/ \E s \in connected \cap CheatMovers :
            /\ InLiveRoom(s) /\ RoomOf(s).gameState.phase = PHASE.TASKS
            /\ PlayerMove(s, SpawnPoints[2].x, SpawnPoints[2].y)
    \/ \E s \in connected \cap CheatKillers, t \in CheatMovers \cup CheatClients :
            /\ InLiveRoom(s) /\ RoomOf(s).gameState.phase # PHASE.LOBBY
            /\ s \in CheatClients \/ HoldsRole(s, "imposter")
            /\ KillPlayer(s, t)
    \/ \E s \in connected \cap CheatHosts :
            /\ InLiveRoom(s) /\ RoomOf(s).gameState.phase = PHASE.TASKS
            /\ EmergencyMeeting(s)
    \/ \E s \in connected \cap CheatClients, t \in CheatVoteTargets :
            /\ InLiveRoom(s) /\ RoomOf(s).gameState.meetingActive
            /\ Vote(s, t)
    \/ \E s \in connected \cap CheatClients :
            /\ InLiveRoom(s) /\ RoomOf(s).gameState.meetingActive
            /\ SkipVote(s)
    \/ \E s \in connected \cap CheatClients : LeaveRoom(s)
    \/ /\ InLiveRoom(1)
       /\ RoomOf(1).gameState.phase = PHASE.TASKS
       /\ \E id \in DOMAIN RoomOf(1).gameState.imposterKillCooldowns :
              RoomOf(1).gameState.imposterKillCooldowns[id] = now
       /\ now < StartTime + CheatTicks * CheatTickMs
       /\ Tick(CheatTickMs)

SpecCheat == Init /\ [][NextCheat]_vars

\* ids holds the key k
InRoster(ids, k) == \E i \in 1..Len(ids) : ids[i] = k

\* the phase the win check of a leave must set on a room
PhaseAfterLeave(room, before) ==
    LET winner == WinnerBut(room, 0) IN
    IF winner = "none" THEN before ELSE PHASE.GAME_OVER

\* C11: when an alive player leaves or disconnects during an active round, the
\* id of that player is afterwards in neither role roster, and the phase is
\* GameOver with winner crewmates if no impostor remains alive, GameOver with
\* winner impostors if the alive impostors are at least as many as the alive
\* crewmates, and unchanged otherwise.
C11_LeaverOutOfRostersAndWinChecked ==
    [][\A s \in connected :
          (/\ ack'.ev \in LeaveEvents
           /\ ack'.sock = s
           /\ ack'.reply = ReplyApplied
           /\ playerSockets[s].roomCode \in DOMAIN rooms'
           /\ RoomOf(s).gameState.phase \in {PHASE.TASKS, PHASE.MEETING}
           /\ HasPlayer(RoomOf(s).players, playerSockets[s].playerId)
           /\ GetPlayer(RoomOf(s).players, playerSockets[s].playerId).isAlive)
              => LET c == playerSockets[s].roomCode
                     k == playerSockets[s].playerId
                 IN  /\ ~InRoster(rooms'[c].gameState.imposters, k)
                     /\ ~InRoster(rooms'[c].gameState.crewmates, k)
                     /\ rooms'[c].gameState.phase
                            = PhaseAfterLeave(rooms'[c], rooms[c].gameState.phase)
                     /\ WinnerBut(rooms'[c], 0) # "none"
                            => GameOverFor(c, WinnerBut(rooms'[c], 0))]_vars

----------------------------------------------------------------------------
(* Meetings *)

\* this step is an endMeeting applied to room c while a meeting of a round
\* with assigned roles is open
EndMeetingStep(c) ==
    /\ ack'.ev = "endMeeting"
    /\ ack'.reply = ReplyApplied
    /\ ack'.sock \in DOMAIN playerSockets
    /\ playerSockets[ack'.sock].roomCode = c
    /\ c \in DOMAIN rooms'
    /\ rooms[c].gameState.phase = PHASE.MEETING
    /\ rooms[c].gameState.meetingActive
    /\ Len(rooms[c].gameState.imposters) > 0

\* C12: endMeeting tabulates the votes: the player who holds a strict plurality
\* of the votes is ejected (isAlive false, id out of its role roster), and on a
\* tie for the most votes, or when skip holds the most, nobody is ejected.
C12_EndMeetingEjectsPlurality ==
    [][\A c \in DOMAIN rooms :
          EndMeetingStep(c) =>
             LET e == Ejected(rooms[c]) IN
             /\ e # 0 => /\ HasPlayer(rooms'[c].players, e)
                         /\ ~GetPlayer(rooms'[c].players, e).isAlive
                         /\ ~InRoster(rooms'[c].gameState.imposters, e)
                         /\ ~InRoster(rooms'[c].gameState.crewmates, e)
             /\ e = 0 => /\ Len(rooms'[c].players) = Len(rooms[c].players)
                         /\ \A i \in 1..Len(rooms[c].players) :
                               rooms'[c].players[i].isAlive = rooms[c].players[i].isAlive
                         /\ rooms'[c].gameState.imposters = rooms[c].gameState.imposters
                         /\ rooms'[c].gameState.crewmates = rooms[c].gameState.crewmates]_vars

\* C13: after endMeeting the win condition is evaluated again: the phase goes
\* back to Tasks only if, the ejected player counted out, at least one impostor
\* is alive and the alive impostors are fewer than the alive crewmates;
\* otherwise the phase is GameOver.
C13_EndMeetingEvaluatesWin ==
    [][\A c \in DOMAIN rooms :
          EndMeetingStep(c) =>
             IF WinnerBut(rooms'[c], Ejected(rooms[c])) = "none"
             THEN rooms'[c].gameState.phase = PHASE.TASKS
             ELSE rooms'[c].gameState.phase = PHASE.GAME_OVER]_vars

----------------------------------------------------------------------------
(* One round with meetings: connection 3 votes with every kind of target *)

MeetPlayers == 4
MeetTicks == 2

MeetCode == CodeTable[1]
MeetSettings == Settings(0, 1, "")
MeetUnknownId == 9
\* what a client can send as targetId: null, 'skip', the id of a player of the
\* room (alive or killed) and an id no player has
MeetTargets == {VNull, VSkip, VId(1), VId(2), VId(MeetUnknownId)}
MeetHosts == {1}
MeetMovers == {1}
MeetVictims == {1, 2}
MeetCallers == {1, 4}
MeetVoters == {3}

NextMeet ==
    \/ /\ nextSock <= MeetPlayers
       /\ \A s \in connected : s \in DOMAIN playerSockets
       /\ Connect
    \/ rooms = << >> /\ 1 \in connected /\ CreateRoom(1, MeetCode, MeetSettings)
    \/ \E s \in connected :
            /\ s = nextId
            /\ JoinRoom(s, MeetCode, NamePadded, "", 0, 0)
    \/ \E s \in connected \cap MeetHosts :
            /\ InLiveRoom(s) => RoomOf(s).gameState.phase = PHASE.LOBBY
            /\ StartGame(s, {DrawDistinct})
    \/ \E s \in connected \cap MeetMovers :
            /\ InLiveRoom(s) /\ RoomOf(s).gameState.phase = PHASE.TASKS
            /\ PlayerMove(s, SpawnPoints[2].x, SpawnPoints[2].y)
    \/ \E s \in connected, t \in MeetVictims :
            /\ HoldsRole(s, "imposter")
            /\ KillPlayer(s, t)
    \/ \E s \in connected \cap MeetCallers :
            /\ InLiveRoom(s) /\ RoomOf(s).gameState.phase # PHASE.LOBBY
            /\ EmergencyMeeting(s)
    \/ \E s \in connected \cap MeetVoters, t \in MeetTargets :
            /\ InLiveRoom(s) /\ RoomOf(s).gameState.phase # PHASE.LOBBY
            /\ Vote(s, t)
    \/ \E s \in connected \cap MeetVoters :
            /\ InLiveRoom(s) /\ RoomOf(s).gameState.phase # PHASE.LOBBY
            /\ SkipVote(s)
    \/ \E s \in connected \cap MeetHosts :
            /\ InLiveRoom(s) /\ RoomOf(s).gameState.meetingActive
            /\ EndMeeting(s, 0, {SpawnAt(1)})
    \/ /\ InLiveRoom(1)
       /\ RoomOf(1).gameState.meetingActive
       /\ \E s \in DOMAIN voteRateLimit : voteRateLimit[s] = now
       /\ now < StartTime + MeetTicks * VOTE_COOLDOWN
       /\ Tick(VOTE_COOLDOWN)

SpecMeet == Init /\ [][NextMeet]_vars

\* the targets a vote may name: skip, or the id of an alive player of the room
TargetAllowed(room, targetId) ==
    \/ targetId = VSkip
    \/ /\ targetId.kind = "id"
       /\ HasPlayer(room.players, targetId.id)
       /\ GetPlayer(room.players, targetId.id).isAlive

\* this step is a vote for targetId that got past the rate limit and the checks
\* of the caller (bound, alive, meeting open)
VoteStep(targetId) ==
    /\ ack'.ev = "vote"
    /\ ack'.reply \notin {ReplyNone, ReplyThrow, "Vote too fast"}
    /\ Vote(ack'.sock, targetId)

\* C14: a vote is recorded only when its target is skip or the id of an alive
\* player of the caller's room; a vote with any other target (unknown id, dead
\* player, null) is rejected with InvalidVoteTarget and the votes map and every
\* player's current vote are unchanged.
C14_VoteTargetValidated ==
    [][\A t \in MeetTargets :
          VoteStep(t) =>
             LET c == playerSockets[ack'.sock].roomCode IN
             IF TargetAllowed(rooms[c], t)
             THEN ack'.reply = ReplyOk
             ELSE /\ ack'.reply = "Invalid vote target"
                  /\ rooms'[c].gameState.votes = rooms[c].gameState.votes
                  /\ rooms'[c].players = rooms[c].players]_vars

----------------------------------------------------------------------------
(* Ballots *)

\* the targets the voters of the rounds above send
BallotTargets == MeetTargets \cup GameVoteTargets \cup CheatVoteTargets

\* this step is an accepted vote for targetId, or an accepted skipVote
BallotStep(targetId) ==
    /\ ack'.reply = ReplyOk
    /\ \/ ack'.ev = "vote" /\ Vote(ack'.sock, targetId)
       \/ ack'.ev = "skipVote" /\ targetId = VSkip

\* C15: the last vote wins: after an accepted vote or skipVote the votes map
\* holds one entry for the caller, that entry and the caller's current vote are
\* the target of this call, and the entries of the other players are as before.
C15_LastVoteWins ==
    [][\A t \in BallotTargets :
          BallotStep(t) =>
             LET c == playerSockets[ack'.sock].roomCode
                 k == playerSockets[ack'.sock].playerId
                 before == rooms[c].gameState.votes
                 after == rooms'[c].gameState.votes
             IN  /\ k \in DOMAIN after
                 /\ after[k] = t
                 /\ GetPlayer(rooms'[c].players, k).votedFor = t
                 /\ \A j \in PlayerKeys(rooms[c].players) \ {k} :
                       /\ j \in DOMAIN after <=> j \in DOMAIN before
                       /\ j \in DOMAIN before => after[j] = before[j]]_vars

----------------------------------------------------------------------------
(* Kills *)

\* the players a killPlayer of the rounds above names
KillTargets == 1..GamePlayers \cup MeetVictims \cup CheatMovers

\* the player with key k was assigned the role impostor when the round started
AssignedImpostor(room, k) == InRoster(room.gameState.imposters, k)

\* what killPlayer has to answer: the first check that fails, in the order
\* caller, target, cooldown, range
KillExpected(room, k, targetId, t) ==
    LET ps == room.players IN
    IF ~(HasPlayer(ps, k) /\ GetPlayer(ps, k).isAlive /\ AssignedImpostor(room, k))
    THEN "Cannot kill"
    ELSE IF ~(/\ HasPlayer(ps, targetId)
              /\ GetPlayer(ps, targetId).isAlive
              /\ ~AssignedImpostor(room, targetId))
    THEN "Invalid target"
    ELSE IF t - GetOr0(room.gameState.imposterKillCooldowns, k)
               < room.settings.killCooldown * 1000
    THEN "Kill cooldown active"
    ELSE IF (GetPlayer(ps, k).x - GetPlayer(ps, targetId).x)
               * (GetPlayer(ps, k).x - GetPlayer(ps, targetId).x)
            + (GetPlayer(ps, k).y - GetPlayer(ps, targetId).y)
               * (GetPlayer(ps, k).y - GetPlayer(ps, targetId).y)
            > KillRange * KillRange
    THEN "Target too far"
    ELSE ReplyOk

\* this step is a killPlayer naming targetId, sent by a connection bound to a
\* room of the registry
KillStep(targetId) ==
    /\ ack'.ev = "killPlayer"
    /\ ack'.sock \in DOMAIN playerSockets
    /\ playerSockets[ack'.sock].roomCode \in DOMAIN rooms
    /\ KillPlayer(ack'.sock, targetId)

\* C16: killPlayer succeeds only when the caller is an alive impostor, the
\* target exists, is alive and is no impostor, the caller's cooldown has elapsed
\* and the target is within range; otherwise it is rejected with the first
\* failing reason in the order CannotKill, InvalidTarget, CooldownActive,
\* TargetTooFar, and the room (the target's isAlive, the cooldown timestamps,
\* the phase) is unchanged.
C16_KillChecksInOrder ==
    [][\A t \in KillTargets :
          KillStep(t) =>
             LET c == playerSockets[ack'.sock].roomCode
                 k == playerSockets[ack'.sock].playerId
             IN  /\ ack'.reply = KillExpected(rooms[c], k, t, now)
                 /\ ack'.reply # ReplyOk => rooms' = rooms]_vars

\* the caller and the target pass the first two checks of a kill
KillEligible(room, k, targetId) ==
    /\ HasPlayer(room.players, k)
    /\ GetPlayer(room.players, k).isAlive
    /\ AssignedImpostor(room, k)
    /\ HasPlayer(room.players, targetId)
    /\ GetPlayer(room.players, targetId).isAlive
    /\ ~AssignedImpostor(room, targetId)

\* a kill of this round was accepted less than killCooldown seconds before t
\* (resetGame writes the timestamp 0, an accepted kill the time of the kill)
RecentKill(room, t) ==
    \E id \in DOMAIN room.gameState.imposterKillCooldowns :
        /\ room.gameState.imposterKillCooldowns[id] > 0
        /\ t - room.gameState.imposterKillCooldowns[id] < room.settings.killCooldown * 1000

\* every kill timestamp of the round is stored under the key of player k or
\* under the id player k carries now: no other player has killed
OwnStamps(room, k) ==
    \A id \in DOMAIN room.gameState.imposterKillCooldowns :
        room.gameState.imposterKillCooldowns[id] > 0
           => id \in {k, GetPlayer(room.players, k).id}

\* C17: in a round with one impostor, a kill attempted within killCooldown
\* seconds after that impostor's previous successful kill is rejected with
\* CooldownActive, and an attempt after the window, or before any kill of the
\* round, is not rejected for cooldown.
C17_KillCooldownWindow ==
    [][\A t \in KillTargets :
          (/\ KillStep(t)
           /\ Len(rooms[playerSockets[ack'.sock].roomCode].gameState.imposters) = 1
           /\ KillEligible(rooms[playerSockets[ack'.sock].roomCode],
                           playerSockets[ack'.sock].playerId, t)
           /\ OwnStamps(rooms[playerSockets[ack'.sock].roomCode],
                        playerSockets[ack'.sock].playerId))
             => (ack'.reply = "Kill cooldown active"
                   <=> RecentKill(rooms[playerSockets[ack'.sock].roomCode], now))]_vars

----------------------------------------------------------------------------
(* One round of moves, kills and reports: player 1 walks to positions around
   the spawn point of player 2 and to positions outside the map *)

MovePlayers == 4

MoveCode == CodeTable[1]
MoveSettings == Settings(0, 1, "")
\* movement.x, movement.y: the place of player 2, a place 59 off it on both
\* axes, a place 60 off it on one axis, and two places outside the map
MoveInputs == { << SpawnPoints[2].x, SpawnPoints[2].y >>,
                << SpawnPoints[2].x + ReportRange - 1, SpawnPoints[2].y + ReportRange - 1 >>,
                << SpawnPoints[2].x + ReportRange, SpawnPoints[2].y >>,
                << 0 - 10, MAP_HEIGHT + 100 >>,
                << MAP_WIDTH + 100, 0 - 5 >> }
MoveHosts == {1}
MoveMovers == {1}
MoveVictims == {1, 2}
MoveReporters == {1, 2, 3}

NextMove ==
    \/ /\ nextSock <= MovePlayers
       /\ \A s \in connected : s \in DOMAIN playerSockets
       /\ Connect
    \/ rooms = << >> /\ 1 \in connected /\ CreateRoom(1, MoveCode, MoveSettings)
    \/ \E s \in connected :
            /\ s = nextId
            /\ JoinRoom(s, MoveCode, NamePadded, "", 0, 0)
    \/ \E s \in connected \cap MoveHosts :
            /\ InLiveRoom(s) => RoomOf(s).gameState.phase = PHASE.LOBBY
            /\ StartGame(s, {DrawDistinct})
    \/ \E s \in connected \cap MoveMovers, m \in MoveInputs :
            /\ InLiveRoom(s)
            /\ PlayerMove(s, m[1], m[2])
    \/ \E s \in connected, t \in MoveVictims :
            /\ HoldsRole(s, "imposter")
            /\ KillPlayer(s, t)
    \/ \E s \in connected \cap MoveReporters :
            /\ InLiveRoom(s) /\ RoomOf(s).gameState.phase # PHASE.LOBBY
            /\ ReportBody(s)

SpecMove == Init /\ [][NextMove]_vars

\* reportBody may be accepted: the caller is alive, no body was reported and a
\* dead player who is no impostor is less than ReportRange away on both axes
ReportAllowed(room, k) ==
    /\ HasPlayer(room.players, k)
    /\ GetPlayer(room.players, k).isAlive
    /\ ~room.gameState.bodyReported
    /\ \E i \in 1..Len(room.players) :
          /\ ~room.players[i].isAlive
          /\ ~AssignedImpostor(room, room.players[i].key)
          /\ Abs(room.players[i].x - GetPlayer(room.players, k).x) < ReportRange
          /\ Abs(room.players[i].y - GetPlayer(room.players, k).y) < ReportRange

\* this step is a reportBody sent by a connection bound to a room
ReportStep ==
    /\ ack'.ev = "reportBody"
    /\ ack'.sock \in DOMAIN playerSockets
    /\ playerSockets[ack'.sock].roomCode \in DOMAIN rooms

\* C18: reportBody is accepted only when the caller is alive, bodyReported is
\* false and a dead non-impostor of the room lies within the proximity range of
\* the caller; on acceptance bodyReported and meetingActive are true, the votes
\* and every player's current vote are cleared and the phase is Meeting;
\* otherwise it is rejected (with NoBodyNearby when only the body is missing) and
\* the state is unchanged.
C18_ReportBodyGate ==
    [][ReportStep =>
          LET c == playerSockets[ack'.sock].roomCode
              k == playerSockets[ack'.sock].playerId
          IN  IF ReportAllowed(rooms[c], k)
              THEN /\ ack'.reply = ReplyOk
                   /\ rooms'[c].gameState.bodyReported
                   /\ rooms'[c].gameState.meetingActive
                   /\ rooms'[c].gameState.votes = << >>
                   /\ \A i \in 1..Len(rooms'[c].players) :
                         rooms'[c].players[i].votedFor = VNull
                   /\ rooms'[c].gameState.phase = PHASE.MEETING
              ELSE /\ IsFailure(ack')
                   /\ rooms' = rooms
                   /\ (/\ HasPlayer(rooms[c].players, k)
                       /\ GetPlayer(rooms[c].players, k).isAlive
                       /\ ~rooms[c].gameState.bodyReported)
                          => ack'.reply = "No body nearby"]_vars

\* a report was accepted for a body that lies 59 off the caller on both axes
C18_Witness ==
    /\ ack.ev = "reportBody"
    /\ ack.reply = ReplyOk
    /\ InLiveRoom(ack.sock)
    /\ RoomOf(ack.sock).gameState.phase = PHASE.MEETING
    /\ RoomOf(ack.sock).gameState.bodyReported
    /\ \E i \in 1..Len(RoomOf(ack.sock).players) :
          /\ ~RoomOf(ack.sock).players[i].isAlive
          /\ Abs(RoomOf(ack.sock).players[i].x
                   - GetPlayer(RoomOf(ack.sock).players, playerSockets[ack.sock].playerId).x)
                = ReportRange - 1

\* a report was refused for a body that lies exactly ReportRange away
C18_WitnessRefused ==
    /\ ack.ev = "reportBody"
    /\ ack.reply = "No body nearby"
    /\ InLiveRoom(ack.sock)
    /\ \E i \in 1..Len(RoomOf(ack.sock).players) :
          /\ ~RoomOf(ack.sock).players[i].isAlive
          /\ Abs(RoomOf(ack.sock).players[i].x
                   - GetPlayer(RoomOf(ack.sock).players, playerSockets[ack.sock].playerId).x)
                = ReportRange

\* P clamped to the interval from 0 to limit
Clamped(v, limit) == IF v < 0 THEN 0 ELSE IF v > limit THEN limit ELSE v

\* this step is a playerMove with input m sent by a connection bound to a room
MoveStep(m) ==
    /\ ack'.ev = "playerMove"
    /\ ack'.sock \in DOMAIN playerSockets
    /\ playerSockets[ack'.sock].roomCode \in DOMAIN rooms
    /\ PlayerMove(ack'.sock, m[1], m[2])

\* C20: after a move with input P by an alive player in phase Tasks the stored
\* position is P clamped componentwise to [0, map width] x [0, map height],
\* also for P outside the map; a move by a dead player or in another phase
\* leaves the position (and the room) unchanged.
C20_MoveClamped ==
    [][\A m \in MoveInputs \cup GameMoves :
          MoveStep(m) =>
             LET c == playerSockets[ack'.sock].roomCode
                 k == playerSockets[ack'.sock].playerId
             IN  IF /\ HasPlayer(rooms[c].players, k)
                    /\ GetPlayer(rooms[c].players, k).isAlive
                    /\ rooms[c].gameState.phase = PHASE.TASKS
                 THEN /\ GetPlayer(rooms'[c].players, k).x = Clamped(m[1], MAP_WIDTH)
                      /\ GetPlayer(rooms'[c].players, k).y = Clamped(m[2], MAP_HEIGHT)
                 ELSE rooms' = rooms]_vars

\* a move to a place left of and below the map was applied
C20_Witness ==
    /\ ack.ev = "playerMove"
    /\ ack.reply = ReplyApplied
    /\ InLiveRoom(ack.sock)
    /\ GetPlayer(RoomOf(ack.sock).players, playerSockets[ack.sock].playerId).x = 0
    /\ GetPlayer(RoomOf(ack.sock).players, playerSockets[ack.sock].playerId).y = MAP_HEIGHT

\* a dead player sent a move
C20_WitnessDead ==
    /\ ack.ev = "playerMove"
    /\ ack.reply = ReplyNone
    /\ InLiveRoom(ack.sock)
    /\ RoomOf(ack.sock).gameState.phase = PHASE.TASKS
    /\ ~GetPlayer(RoomOf(ack.sock).players, playerSockets[ack.sock].playerId).isAlive

----------------------------------------------------------------------------
(* Emergency calls *)

\* C19: one emergency call per round: between an accepted startGame and the
\* next accepted startGame of a room at most one emergencyMeeting is accepted.
C19_OneEmergencyPerRound ==
    \A c \in DOMAIN rooms :
        rooms[c].gameState.phase # PHASE.LOBBY
           => rooms[c].gameState.emergenciesAccepted <= 1

----------------------------------------------------------------------------
(* Rounds of tasks: the crewmates complete tasks, the host starts a new round
   after the first completion *)

TaskPlayers == 4

TaskCode == CodeTable[1]
TaskSettings == Settings(0, 1, "")
\* three tasks, the first template drawn twice
DrawTwice == << 1, 1, 2 >>
TaskDraws == { DrawDistinct, DrawTwice }
\* the task ids clients send: the templates drawn and one that is not
TaskIds == { TaskTemplates[i] : i \in 1..4 }
TaskHosts == {1}
TaskWorkers == {2, 3, 4}

NextTask ==
    \/ /\ nextSock <= TaskPlayers
       /\ \A s \in connected : s \in DOMAIN playerSockets
       /\ Connect
    \/ rooms = << >> /\ 1 \in connected /\ CreateRoom(1, TaskCode, TaskSettings)
    \/ \E s \in connected :
            /\ s = nextId
            /\ JoinRoom(s, TaskCode, NamePadded, "", 0, 0)
    \/ \E s \in connected \cap TaskHosts :
            /\ InLiveRoom(s) =>
                  \/ RoomOf(s).gameState.phase = PHASE.LOBBY
                  \/ CountCompleted(RoomOf(s).gameState.tasks) = 1
            /\ StartGame(s, TaskDraws)
    \/ \E s \in connected \cap TaskWorkers, t \in TaskIds :
            /\ InLiveRoom(s) /\ RoomOf(s).gameState.phase # PHASE.LOBBY
            /\ CompleteTask(s, t)

SpecTask == Init /\ [][NextTask]_vars

\* the task ids the workers of the rounds above send
SentTaskIds == TaskIds \cup GameTaskIds

\* the task at index i is a task of player k with id taskId that is not completed
OpenTask(room, k, taskId, i) ==
    /\ room.gameState.tasks[i].id = taskId
    /\ room.gameState.tasks[i].assignedTo = k
    /\ ~room.gameState.tasks[i].completed

\* completeTask may mark a task: the caller is an alive crewmate with a task of
\* that id that is not completed
TaskEligible(room, k, taskId) ==
    /\ HasPlayer(room.players, k)
    /\ GetPlayer(room.players, k).isAlive
    /\ InRoster(room.gameState.crewmates, k)
    /\ \E i \in 1..Len(room.gameState.tasks) : OpenTask(room, k, taskId, i)

\* this step is a completeTask naming taskId, sent by a connection bound to a room
TaskStep(taskId) ==
    /\ ack'.ev = "completeTask"
    /\ ack'.sock \in DOMAIN playerSockets
    /\ playerSockets[ack'.sock].roomCode \in DOMAIN rooms
    /\ CompleteTask(ack'.sock, taskId)

\* C21: completeTask marks a task completed only when the caller is alive, a
\* crewmate, and the named task is assigned to the caller and not completed; it
\* then marks one such task, raises the caller's completedTasks and the round's
\* completed count by exactly 1, and sets the phase to GameOver with winner
\* crewmates when the completed count reaches totalTasks; in every other case
\* nothing of the room changes.
C21_CompleteTaskGate ==
    [][\A t \in SentTaskIds :
          TaskStep(t) =>
             LET c == playerSockets[ack'.sock].roomCode
                 k == playerSockets[ack'.sock].playerId
                 gs == rooms[c].gameState
                 gs1 == rooms'[c].gameState
             IN  /\ ~TaskEligible(rooms[c], k, t) => rooms' = rooms
                 /\ rooms' # rooms =>
                       /\ \E i \in 1..Len(gs.tasks) :
                             /\ OpenTask(rooms[c], k, t, i)
                             /\ gs1.tasks = [gs.tasks EXCEPT ![i].completed = TRUE]
                       /\ GetPlayer(rooms'[c].players, k).completedTasks
                             = GetPlayer(rooms[c].players, k).completedTasks + 1
                       /\ gs1.taskProgress = gs.taskProgress + 1
                       /\ IF gs1.taskProgress >= gs.totalTasks
                          THEN GameOverFor(c, "crewmates")
                          ELSE gs1.phase = gs.phase]_vars

----------------------------------------------------------------------------
(* Player fields *)

\* the fields of a player that updatePlayer has to leave alone
ProtectedFields ==
    {"key", "id", "socketId", "role", "isAlive", "x", "y", "completedTasks", "votedFor"}

\* C22: updatePlayer changes only the caller's name and color: the caller's id,
\* connection id, role, isAlive, position, completedTasks and current vote, all
\* other players and the game state of the room are unchanged.
C22_UpdatePlayerOnlyNameAndColor ==
    [][(ack'.ev = "updatePlayer" /\ ack'.reply = ReplyOk) =>
          LET c == playerSockets[ack'.sock].roomCode
              k == playerSockets[ack'.sock].playerId
          IN  /\ \A f \in ProtectedFields :
                    GetPlayer(rooms'[c].players, k)[f] = GetPlayer(rooms[c].players, k)[f]
              /\ Len(rooms'[c].players) = Len(rooms[c].players)
              /\ \A i \in 1..Len(rooms[c].players) :
                    rooms[c].players[i].key # k
                       => rooms'[c].players[i] = rooms[c].players[i]
              /\ rooms'[c].gameState = rooms[c].gameState
              /\ playerSockets' = playerSockets]_vars

\* C23: once a player's isAlive is false it stays false under every event until
\* the next accepted startGame of the room.
C23_DeadStaysDead ==
    [][\A c \in DOMAIN rooms \cap DOMAIN rooms' :
          \A i \in 1..Len(rooms[c].players) :
             (/\ ~rooms[c].players[i].isAlive
              /\ HasPlayer(rooms'[c].players, rooms[c].players[i].key)
              /\ GetPlayer(rooms'[c].players, rooms[c].players[i].key).isAlive)
                => (ack'.ev = "startGame" /\ ack'.reply = ReplyOk)]_vars

----------------------------------------------------------------------------
(* Settings *)

\* this step is a createRoom that registers code c
CreatesRoom(c) ==
    /\ ack'.ev = "createRoom"
    /\ rooms' = RegisterRoom(rooms, c, rooms'[c])
    /\ rooms'[c].players = << >>

\* C24: the settings of a room (maxPlayers, killCooldown, emergencyCooldown,
\* discussionTime, votingTime, map) are immutable after its creation: no step
\* that is not the creation of the room changes any of them.
C24_SettingsImmutable ==
    [][\A c \in DOMAIN rooms \cap DOMAIN rooms' :
          ~CreatesRoom(c) => rooms'[c].settings = rooms[c].settings]_vars

\* a meeting was closed in a started room whose kill cooldown is the one the
\* host chose at creation
C24_Witness ==
    /\ ack.ev = "endMeeting"
    /\ ack.reply = ReplyApplied
    /\ InLiveRoom(ack.sock)
    /\ Len(RoomOf(ack.sock).gameState.imposters) > 0
    /\ RoomOf(ack.sock).settings.killCooldown = GameSettings.killCooldown
    /\ RoomOf(ack.sock).settings.killCooldown # DefaultKillCooldown

----------------------------------------------------------------------------
(* Failure acks *)

\* C25: every action answered with a failure ack (success: false) leaves the
\* whole server state unchanged: registry, bindings, rosters, player fields,
\* phase, meeting flags, votes, tasks, kill cooldowns and rate-limit timestamps.
C25_FailureChangesNothing ==
    [][IsFailure(ack') =>
          /\ rooms' = rooms
          /\ playerSockets' = playerSockets
          /\ connected' = connected
          /\ emergencyRateLimit' = emergencyRateLimit
          /\ voteRateLimit' = voteRateLimit]_vars

\* an emergencyMeeting got past the rate limit of its connection and was
\* refused by the checks of the caller and of the flag of the room
C25_Witness ==
    /\ ack.ev = "emergencyMeeting"
    /\ IsFailure(ack)
    /\ InLiveRoom(ack.sock)
    /\ RoomOf(ack.sock).gameState.phase # PHASE.LOBBY
    /\ ack.sock \notin DOMAIN emergencyRateLimit

----------------------------------------------------------------------------
(* Votes of players who leave *)

\* C26: a disconnect leaves no dangling vote entries: after a player left or
\* disconnected, the votes of its room hold no entry keyed by the id of that
\* player and no entry whose target is that id.
C26_NoDanglingVotes ==
    [][\A s \in connected :
          (/\ ack'.ev \in LeaveEvents
           /\ ack'.sock = s
           /\ ack'.reply = ReplyApplied
           /\ playerSockets[s].roomCode \in DOMAIN rooms')
              => LET votes == rooms'[playerSockets[s].roomCode].gameState.votes
                     k == playerSockets[s].playerId
                 IN  /\ k \notin DOMAIN votes
                     /\ \A v \in DOMAIN votes : votes[v] # VId(k)]_vars

----------------------------------------------------------------------------
(* Phase checks *)

\* this step is the event ev sent by a connection bound to room c
EventIn(ev, c) ==
    /\ ack'.ev = ev
    /\ ack'.sock \in DOMAIN playerSockets
    /\ playerSockets[ack'.sock].roomCode = c
    /\ c \in DOMAIN rooms'

\* C27: killPlayer and completeTask change the game state (isAlive, task
\* completion, counters, phase) only when the phase of the room is Tasks; sent
\* in Lobby, Meeting or GameOver they change nothing.
C27_TasksPhaseOnly ==
    [][\A c \in DOMAIN rooms :
          (/\ EventIn("killPlayer", c) \/ EventIn("completeTask", c)
           /\ rooms[c].gameState.phase # PHASE.TASKS)
              => rooms'[c] = rooms[c]]_vars

\* C28: at most one meeting trigger is outstanding: while a meeting is active
\* (phase Meeting) every reportBody and every emergencyMeeting is rejected and
\* the votes recorded in the meeting are not cleared.
C28_OneMeetingTrigger ==
    [][\A c \in DOMAIN rooms :
          (/\ EventIn("reportBody", c) \/ EventIn("emergencyMeeting", c)
           /\ rooms[c].gameState.phase = PHASE.MEETING
           /\ rooms[c].gameState.meetingActive)
              => /\ IsFailure(ack')
                 /\ rooms'[c].gameState.votes = rooms[c].gameState.votes]_vars

----------------------------------------------------------------------------
(* The vote rate limit *)

BallotEvents == {"vote", "skipVote"}

\* C29: a vote or skipVote that arrives less than VOTE_COOLDOWN after the
\* previous accepted vote or skipVote of the same connection is rejected and
\* leaves the votes unchanged; both events share one timestamp per connection,
\* which an accepted call sets to the time of the call and a call that is not
\* accepted leaves as it was.
C29_VoteRateLimit ==
    [][(ack'.ev \in BallotEvents /\ ack'.sock \in DOMAIN playerSockets) =>
          LET s == ack'.sock IN
          /\ (s \in DOMAIN voteRateLimit /\ now - voteRateLimit[s] < VOTE_COOLDOWN)
                => /\ ack'.reply = "Vote too fast"
                   /\ rooms' = rooms
          /\ ack'.reply = ReplyOk
                => voteRateLimit' = MapSet(voteRateLimit, s, now)
          /\ ack'.reply # ReplyOk => voteRateLimit' = voteRateLimit]_vars

\* a skipVote was refused as too fast in the second in which a vote of the
\* same connection was recorded
C29_Witness ==
    /\ ack.ev = "skipVote"
    /\ ack.reply = "Vote too fast"
    /\ InLiveRoom(ack.sock)
    /\ ack.sock \in DOMAIN voteRateLimit
    /\ voteRateLimit[ack.sock] = now
    /\ playerSockets[ack.sock].playerId \in DOMAIN RoomOf(ack.sock).gameState.votes
    /\ RoomOf(ack.sock).gameState.votes[playerSockets[ack.sock].playerId].kind = "id"

\* a vote was accepted one interval after the previous accepted one
C29_WitnessAfterWindow ==
    /\ ack.ev \in BallotEvents
    /\ ack.reply = ReplyOk
    /\ voteRateLimit[ack.sock] = now
    /\ now > StartTime

----------------------------------------------------------------------------
(* Tasks that can be completed *)

\* C30: every assigned task can be completed: in phase Tasks, whenever an alive
\* crewmate has a task with id T that is not completed, the completeTask(T) of
\* that crewmate marks one such task completed.
C30_OpenTaskCompletes ==
    [][\A t \in SentTaskIds :
          (/\ TaskStep(t)
           /\ rooms[playerSockets[ack'.sock].roomCode].gameState.phase = PHASE.TASKS
           /\ TaskEligible(rooms[playerSockets[ack'.sock].roomCode],
                           playerSockets[ack'.sock].playerId, t))
             => LET c == playerSockets[ack'.sock].roomCode
                    k == playerSockets[ack'.sock].playerId
                IN  \E i \in 1..Len(rooms[c].gameState.tasks) :
                       /\ OpenTask(rooms[c], k, t, i)
                       /\ rooms'[c].gameState.tasks[i].completed]_vars
----------------------------------------------------------------------------
(* C31: one winner per round *)

\* the room has announced both winners since its last resetGame
BothWinnersAnnounced(room) ==
    {"imposters", "crewmates"} \subseteq room.gameState.winnersAnnounced

\* C31: between one accepted startGame and the next, gameOver is announced for
\* at most one winner faction: no room that has left the lobby has emitted a
\* gameOver with winner imposters and one with winner crewmates since its last
\* resetGame
C31_OneWinnerPerRound ==
    \A c \in DOMAIN rooms :
        rooms[c].gameState.phase # PHASE.LOBBY => ~BothWinnersAnnounced(rooms[c])

----------------------------------------------------------------------------
(* C32: the last two task completions *)

\* the tasks of the room that are not completed
Outstanding(room) ==
    { i \in 1..Len(room.gameState.tasks) : ~room.gameState.tasks[i].completed }

\* the gameOver broadcasts of this step
GameOverEmits == { i \in 1..Len(emits') : emits'[i].ev = "gameOver" }

\* C32: when the last two outstanding tasks belong to two crewmates and each
\* sends completeTask for its own, the completions are serialized in either
\* arrival order: the one that arrives with two tasks outstanding completes one
\* and leaves the phase Tasks with no gameOver, the one that arrives with one
\* task outstanding completes it, moves the phase to GameOver and emits the one
\* gameOver with winner crewmates.
C32_LastCompletionsSerialized ==
    [][\A t \in SentTaskIds :
          (/\ TaskStep(t)
           /\ rooms[playerSockets[ack'.sock].roomCode].gameState.phase = PHASE.TASKS
           /\ TaskEligible(rooms[playerSockets[ack'.sock].roomCode],
                           playerSockets[ack'.sock].playerId, t)
           /\ Cardinality(Outstanding(rooms[playerSockets[ack'.sock].roomCode])) <= 2)
             => LET c == playerSockets[ack'.sock].roomCode
                    left == Cardinality(Outstanding(rooms[c]))
                IN  /\ Cardinality(Outstanding(rooms'[c])) = left - 1
                    /\ IF left = 2
                       THEN /\ rooms'[c].gameState.phase = PHASE.TASKS
                            /\ GameOverEmits = {}
                       ELSE /\ rooms'[c].gameState.phase = PHASE.GAME_OVER
                            /\ emits' = << Emit("gameOver", c, 0, "crewmates") >>]_vars

----------------------------------------------------------------------------
(* C33: the completed-task count *)

\* C33: in every reachable state the round's completed-task count, taskProgress,
\* is the number of tasks of the current round whose completed flag is true
\* (also right after a startGame that follows an earlier round), and so
\* 0 <= taskProgress <= totalTasks.
C33_TaskProgressIsCompletedCount ==
    \A c \in DOMAIN rooms :
        LET gs == rooms[c].gameState
        IN  /\ gs.taskProgress = CountCompleted(gs.tasks)
            /\ 0 <= gs.taskProgress
            /\ gs.taskProgress <= gs.totalTasks

----------------------------------------------------------------------------
(* C34: meetingActive and the phase *)

\* C34: in every reachable state of a room, meetingActive is true exactly when
\* the phase is Meeting (meetingActive is false in Lobby, Tasks and GameOver).
C34_MeetingActiveIffMeeting ==
    \A c \in DOMAIN rooms :
        rooms[c].gameState.meetingActive <=> rooms[c].gameState.phase = PHASE.MEETING

----------------------------------------------------------------------------
(* C35: session binding *)

\* the binding of connection s names a live room whose roster holds its player
BindingLive(s) ==
    /\ playerSockets[s].roomCode \in DOMAIN rooms
    /\ HasPlayer(rooms[playerSockets[s].roomCode].players, playerSockets[s].playerId)

\* the player at roster index i of room c is the one its own connection is bound to
PlayerBound(c, i) ==
    LET player == rooms[c].players[i]
    IN  /\ player.socketId \in DOMAIN playerSockets
        /\ playerSockets[player.socketId] = [roomCode |-> c, playerId |-> player.key]

\* C35: session binding is consistent in every reachable state: a connection is
\* bound to at most one (room, player) pair (playerSockets is a map), every
\* binding names a live room whose roster contains that player, and every player
\* in a roster is the target of the binding of its own connection, also after
\* one connection has sent joinRoom more than once.
C35_SessionBindingConsistent ==
    /\ \A s \in DOMAIN playerSockets : BindingLive(s)
    /\ \A c \in DOMAIN rooms : \A i \in 1..Len(rooms[c].players) : PlayerBound(c, i)

----------------------------------------------------------------------------
(* Two rooms: the first connections fill and start one room, the next ones
   create, fill and play a second one; one connection of the first room joins
   the second room as well *)

\* the players that join each room with their own connection
RoomsPlayers == 4

RoomsCodeFirst == CodeTable[1]
RoomsCodeSecond == CodeTable[2]
RoomsSettings == Settings(0, 1, "")
\* the room a connection creates or joins first
RoomsCodeOf(s) == IF s <= RoomsPlayers THEN RoomsCodeFirst ELSE RoomsCodeSecond
\* the hosts, and the connections of the second room by what they send
RoomsHosts == {1, RoomsPlayers + 1}
RoomsCallers == {RoomsPlayers + 1}
RoomsClients == {RoomsPlayers + 2}
RoomsMovers == {RoomsPlayers + 3}
RoomsWorkers == {RoomsPlayers + 4}
\* the connection of the first room that also joins the second, and leaves it
RoomsDrifters == {RoomsPlayers}
\* ids named as targets: a player of the first room and one of the second
RoomsTargetIds == {1, RoomsPlayers + 3}
\* updatePlayer payloads: a color, and the id of a player of the first room
RoomsUpdates == { [color |-> PLAYER_COLORS[2]], [id |-> 1] }

NextRooms ==
    \/ /\ nextSock <= 2 * RoomsPlayers
       /\ \A s \in connected : s \in DOMAIN playerSockets
       /\ nextSock > RoomsPlayers =>
              /\ RoomsCodeFirst \in DOMAIN rooms
              /\ rooms[RoomsCodeFirst].gameState.phase # PHASE.LOBBY
       /\ Connect
    \/ \E s \in connected \cap RoomsHosts :
            /\ RoomsCodeOf(s) \notin DOMAIN rooms
            /\ CreateRoom(s, RoomsCodeOf(s), RoomsSettings)
    \/ \E s \in connected :
            /\ s = nextId
            /\ JoinRoom(s, RoomsCodeOf(s), NamePadded, "", 0, 0)
    \/ \E s \in connected \cap RoomsDrifters :
            /\ nextId = 2 * RoomsPlayers + 1
            /\ JoinRoom(s, RoomsCodeSecond, NamePadded, "", 0, 0)
    \/ \E s \in connected \cap RoomsHosts :
            /\ InLiveRoom(s)
            /\ RoomOf(s).gameState.phase = PHASE.LOBBY
            /\ Len(RoomOf(s).players) >= RoomsPlayers
            /\ StartGame(s, {DrawDistinct})
    \/ \E s \in connected \cap RoomsClients, u \in RoomsUpdates :
            /\ InLiveRoom(s) /\ RoomOf(s).gameState.phase # PHASE.LOBBY
            /\ UpdatePlayer(s, u)
    \/ \E s \in connected \cap RoomsMovers :
            /\ InLiveRoom(s) /\ RoomOf(s).gameState.phase = PHASE.TASKS
            /\ PlayerMove(s, SpawnPoints[2].x, SpawnPoints[2].y)
    \/ \E s \in connected, t \in RoomsTargetIds :
            /\ s > RoomsPlayers \/ s \in RoomsDrifters
            /\ HoldsRole(s, "imposter")
            /\ KillPlayer(s, t)
    \/ \E s \in connected \cap RoomsClients :
            /\ InLiveRoom(s) /\ RoomOf(s).gameState.phase # PHASE.LOBBY
            /\ ReportBody(s)
    \/ \E s \in connected \cap RoomsCallers :
            /\ InLiveRoom(s) /\ RoomOf(s).gameState.phase = PHASE.TASKS
            /\ EmergencyMeeting(s)
    \/ \E s \in connected \cap RoomsClients, t \in RoomsTargetIds :
            /\ InLiveRoom(s) /\ RoomOf(s).gameState.meetingActive
            /\ Vote(s, VId(t))
    \/ \E s \in connected \cap RoomsClients :
            /\ InLiveRoom(s) /\ RoomOf(s).gameState.meetingActive
            /\ SkipVote(s)
    \/ \E s \in connected \cap RoomsWorkers :
            /\ InLiveRoom(s) /\ RoomOf(s).gameState.phase # PHASE.LOBBY
            /\ CompleteTask(s, TaskTemplates[1])
    \/ \E s \in connected \cap RoomsCallers :
            /\ InLiveRoom(s) /\ RoomOf(s).gameState.meetingActive
            /\ EndMeeting(s, 0, {SpawnAt(1)})
    \/ \E s \in connected \cap RoomsDrifters :
            /\ nextId > 2 * RoomsPlayers + 1
            /\ LeaveRoom(s)

SpecRooms == Init /\ [][NextRooms]_vars

\* the events the clients of a room send once they are in it
GameEvents ==
    {"startGame", "playerMove", "completeTask", "reportBody", "emergencyMeeting",
     "vote", "skipVote", "killPlayer", "endMeeting", "updatePlayer", "leaveRoom"}

\* C36: rooms are isolated: a game action (startGame, move, completeTask,
\* reportBody, emergencyMeeting, vote, skipVote, killPlayer, endMeeting,
\* updatePlayer, leave) sent by a connection bound to a room leaves every other
\* live room in the registry with its roster and its game state (phase, flags,
\* votes, tasks, role rosters, cooldowns) unchanged.
C36_RoomsIsolated ==
    [][(ack'.ev \in GameEvents /\ ack'.sock \in DOMAIN playerSockets)
          => \A c \in DOMAIN rooms \ {playerSockets[ack'.sock].roomCode} :
                /\ c \in DOMAIN rooms'
                /\ rooms'[c].players = rooms[c].players
                /\ rooms'[c].gameState = rooms[c].gameState]_vars

\* a connection has left the second room while the player of its first
\* joinRoom is in the roster of the first room, which is in a running round
C36_Witness ==
    /\ ack.ev = "leaveRoom"
    /\ ack.reply = ReplyApplied
    /\ \E c \in DOMAIN rooms :
          /\ rooms[c].gameState.phase = PHASE.TASKS
          /\ \E i \in 1..Len(rooms[c].players) : rooms[c].players[i].socketId = ack.sock

\* an impostor of the second room has killed there while the first room is in
\* a running round
C36_WitnessKill ==
    /\ ack.ev = "killPlayer"
    /\ ack.reply = ReplyOk
    /\ ack.sock \in DOMAIN playerSockets
    /\ playerSockets[ack.sock].roomCode = RoomsCodeSecond
    /\ RoomsCodeFirst \in DOMAIN rooms
    /\ rooms[RoomsCodeFirst].gameState.phase = PHASE.TASKS

----------------------------------------------------------------------------
(* C37: no decided round in the Tasks phase *)

\* C37: in every reachable state where a room's phase is Tasks, at least one
\* impostor is alive and the alive impostors are strictly fewer than the alive
\* crewmates: a round in which a win condition holds is never in phase Tasks.
C37_TasksPhaseUndecided ==
    \A c \in DOMAIN rooms :
        LET gs == rooms[c].gameState
            aliveImposters == CountAlive(gs.imposters, rooms[c].players)
            aliveCrewmates == CountAlive(gs.crewmates, rooms[c].players)
        IN  gs.phase = PHASE.TASKS =>
                /\ aliveImposters >= 1
                /\ aliveImposters < aliveCrewmates

----------------------------------------------------------------------------
(* C38: the role rosters *)

\* some player of the roster has this id
HasId(ps, id) == \E i \in 1..Len(ps) : ps[i].id = id

\* C38: in every reachable state after a startGame (the room went through
\* resetGame), gameState.imposters and gameState.crewmates are disjoint, every
\* id in them is the id of a player currently in the room's roster, and a
\* player's id is in gameState.imposters exactly when the player's role is
\* imposter.
C38_RoleRostersConsistent ==
    \A c \in DOMAIN rooms :
        LET gs == rooms[c].gameState
            ps == rooms[c].players
        IN  gs.hasKillCooldowns =>
                /\ \A i \in 1..Len(gs.imposters) : ~InRoster(gs.crewmates, gs.imposters[i])
                /\ \A i \in 1..Len(gs.imposters) : HasId(ps, gs.imposters[i])
                /\ \A i \in 1..Len(gs.crewmates) : HasId(ps, gs.crewmates[i])
                /\ \A i \in 1..Len(ps) :
                       InRoster(gs.imposters, ps[i].id) <=> ps[i].role = "imposter"

----------------------------------------------------------------------------
(* The team-based server of src/unnamed/part_005: one global gameState with
   the player registry, the ships and the team lists.  Names, colors and the
   physics of ships and projectiles (positions, health, shields, cooldowns)
   are left out; a projectile hit that destroys a ship is an input of the
   game loop. *)

RESPAWN_DELAY == 5000
HEARTBEAT_TIMEOUT == 30000

\* const validTeams = ['red', 'blue', 'neutral']
ValidTeams == {"red", "blue", "neutral"}

\* shipId: null
NoShip == << >>

\* `ship_${playerId}`
ShipIdOf(playerId) == << "ship", playerId >>

RECURSIVE RemoveFirst(_, _)
\* const i = list.indexOf(x); if (i > -1) list.splice(i, 1)
RemoveFirst(list, x) ==
    IF list = << >> THEN << >>
    ELSE IF Head(list) = x THEN Tail(list)
    ELSE << Head(list) >> \o RemoveFirst(Tail(list), x)

\* function createPlayer(id, data), called at time t
createPlayer(gs, id, t) ==
    [gs EXCEPT !.players = MapSet(@, id,
        [ id |-> id, shipId |-> NoShip, team |-> "neutral",
          score |-> 0, kills |-> 0, deaths |-> 0, lastHeartbeat |-> t ])]

\* function removePlayer(id)
removePlayer(gs, id) ==
    IF id \notin DOMAIN gs.players THEN gs
    ELSE LET player == gs.players[id]
             teams1 == IF player.team # "neutral"
                       THEN [gs.teams EXCEPT ![player.team].players = RemoveFirst(@, id)]
                       ELSE gs.teams
             ships1 == IF player.shipId # NoShip /\ player.shipId \in DOMAIN gs.ships
                       THEN MapDelete(gs.ships, player.shipId)
                       ELSE gs.ships
         IN  [gs EXCEPT !.teams = teams1, !.ships = ships1, !.players = MapDelete(@, id)]

\* function createShip(playerId, team)
createShip(gs, playerId, team) ==
    LET shipId == ShipIdOf(playerId)
        ship == [id |-> shipId, playerId |-> playerId, team |-> team]
    IN  [gs EXCEPT
            !.ships = MapSet(@, shipId, ship),
            !.players = IF playerId \in DOMAIN @
                        THEN [@ EXCEPT ![playerId].shipId = shipId]
                        ELSE @]

\* function handleTeamSelection(playerId, team)
handleTeamSelection(gs, playerId, team) ==
    IF playerId \notin DOMAIN gs.players THEN gs
    ELSE LET player == gs.players[playerId]
             selectedTeam == IF team \in ValidTeams THEN team ELSE "neutral"
             teams1 == IF player.team # "neutral"
                       THEN [gs.teams EXCEPT ![player.team].players = RemoveFirst(@, playerId)]
                       ELSE gs.teams
             teams2 == [teams1 EXCEPT ![selectedTeam].players = Append(@, playerId)]
             gs2 == [gs EXCEPT !.teams = teams2, !.players[playerId].team = selectedTeam]
         IN  IF selectedTeam = "neutral" THEN gs2
             ELSE IF player.shipId = NoShip \/ player.shipId \notin DOMAIN gs.ships
             THEN createShip(gs2, playerId, selectedTeam)
             ELSE [gs2 EXCEPT !.ships[player.shipId].team = selectedTeam]

\* function handleShipDestruction(destroyedShipId, killerShipId), called at
\* time t: the state afterwards and the timers it started
handleShipDestruction(gs, destroyedShipId, killerShipId, t) ==
    LET hasDestroyed == destroyedShipId \in DOMAIN gs.ships
        hasKiller == killerShipId \in DOMAIN gs.ships
        owner == gs.ships[destroyedShipId].playerId
        hasOwner == hasDestroyed /\ owner \in DOMAIN gs.players
        gs1 == IF hasOwner
               THEN [gs EXCEPT !.players[owner].deaths = @ + 1,
                               !.players[owner].score = Max(0, @ - 50)]
               ELSE gs
        gs2 == IF hasDestroyed
               THEN [gs1 EXCEPT !.ships = MapDelete(@, destroyedShipId)]
               ELSE gs1
        killerShip == gs.ships[killerShipId]
        hasKillerPlayer == hasKiller /\ killerShip.playerId \in DOMAIN gs2.players
        gs3 == IF hasKillerPlayer
               THEN [gs2 EXCEPT !.players[killerShip.playerId].kills = @ + 1,
                                !.players[killerShip.playerId].score = @ + 100]
               ELSE gs2
        gs4 == IF hasKillerPlayer /\ killerShip.team # "neutral"
               THEN [gs3 EXCEPT !.teams[killerShip.team].score = @ + 100]
               ELSE gs3
    IN  [ gameState |-> gs4,
          timers |-> IF hasOwner
                     THEN << [playerId |-> owner, due |-> t + RESPAWN_DELAY] >>
                     ELSE << >> ]

\* the players whose last heartbeat is more than 30 seconds old at time t
TimedOut(gs, t) ==
    { id \in DOMAIN gs.players : t - gs.players[id].lastHeartbeat > HEARTBEAT_TIMEOUT }

RECURSIVE RemovePlayers(_, _)
\* gameState.players.forEach(... removePlayer(id) ...) over the ids of a set
RemovePlayers(gs, ids) ==
    IF ids = {} THEN gs
    ELSE LET id == CHOOSE x \in ids : TRUE
         IN  RemovePlayers(removePlayer(gs, id), ids \ {id})

\* what a team-server event leaves alone: the room server, and the clock
TeamFrame ==
    /\ emits' = << >>
    /\ UNCHANGED <<rooms, playerSockets, connected, nextSock, nextId, now,
                   emergencyRateLimit, voteRateLimit, crashed>>

\* io.on('connection'): a new socket, for which createPlayer(socket.id) runs
TeamConnection ==
    /\ clients' = clients \cup {nextClient}
    /\ nextClient' = nextClient + 1
    /\ gameState' = createPlayer(gameState, nextClient, now)
    /\ ack' = Ack("connection", nextClient, ReplyApplied)
    /\ UNCHANGED timers
    /\ TeamFrame

\* socket.on('disconnect')
TeamDisconnect(s) ==
    /\ s \in clients
    /\ clients' = clients \ {s}
    /\ gameState' = removePlayer(gameState, s)
    /\ ack' = Ack("disconnect", s,
                  IF s \in DOMAIN gameState.players THEN ReplyApplied ELSE ReplyNone)
    /\ UNCHANGED <<timers, nextClient>>
    /\ TeamFrame

\* socket.on('teamSelect')
TeamSelect(s, team) ==
    /\ s \in clients
    /\ gameState' = handleTeamSelection(gameState, s, team)
    /\ ack' = Ack("teamSelect", s,
                  IF s \in DOMAIN gameState.players THEN ReplyApplied ELSE ReplyNone)
    /\ UNCHANGED <<timers, clients, nextClient>>
    /\ TeamFrame

\* socket.on('heartbeat')
Heartbeat(s) ==
    /\ s \in clients
    /\ gameState' = IF s \in DOMAIN gameState.players
                    THEN [gameState EXCEPT !.players[s].lastHeartbeat = now]
                    ELSE gameState
    /\ ack' = Ack("heartbeat", s,
                  IF s \in DOMAIN gameState.players THEN ReplyApplied ELSE ReplyNone)
    /\ UNCHANGED <<timers, clients, nextClient>>
    /\ TeamFrame

\* function gameLoop(): updateProjectiles, in which the projectiles of ship
\* hit.killer destroy ship hit.destroyed (hit = << >>: no ship is destroyed),
\* then the sweep of the players whose heartbeat timed out
GameLoop(hit) ==
    /\ LET res == IF hit = << >> THEN [gameState |-> gameState, timers |-> << >>]
                  ELSE handleShipDestruction(gameState, hit.destroyed, hit.killer, now)
       IN  /\ gameState' = RemovePlayers(res.gameState, TimedOut(res.gameState, now))
           /\ timers' = timers \o res.timers
    /\ ack' = Ack("gameLoop", 0, ReplyApplied)
    /\ UNCHANGED <<clients, nextClient>>
    /\ TeamFrame

\* a respawn callback that creates the ship without looking for the player
RespawnTimeoutUnchecked(i) ==
    /\ i \in 1..Len(timers)
    /\ timers[i].due <= now
    /\ LET playerId == timers[i].playerId
       IN  /\ gameState' = createShip(gameState, playerId,
                                      IF playerId \in DOMAIN gameState.players
                                      THEN gameState.players[playerId].team
                                      ELSE "neutral")
           /\ ack' = Ack("respawn", playerId, ReplyApplied)
    /\ timers' = [j \in 1..(Len(timers) - 1) |-> IF j < i THEN timers[j] ELSE timers[j + 1]]
    /\ UNCHANGED <<clients, nextClient>>
    /\ TeamFrame

\* the callback of setTimeout(() => { ... }, 5000) in handleShipDestruction:
\* timer i is due and fires
RespawnTimeout(i) ==
    /\ i \in 1..Len(timers)
    /\ timers[i].due <= now
    /\ LET playerId == timers[i].playerId
           has == playerId \in DOMAIN gameState.players
       IN  /\ gameState' = IF has
                           THEN createShip(gameState, playerId,
                                           gameState.players[playerId].team)
                           ELSE gameState
           /\ ack' = Ack("respawn", playerId, IF has THEN ReplyApplied ELSE ReplyNone)
    /\ timers' = [j \in 1..(Len(timers) - 1) |-> IF j < i THEN timers[j] ELSE timers[j + 1]]
    /\ UNCHANGED <<clients, nextClient>>
    /\ TeamFrame

----------------------------------------------------------------------------
(* The team server with a few connections: they pick teams, ships are
   destroyed and respawn, players disconnect or time out *)

TeamSockets == 2
\* a ship is destroyed while its owner has died fewer times than this
TeamMaxDeaths == 1
\* the neutral list is pushed to while it is shorter than this
TeamMaxNeutral == 2
\* the respawn delays the clock may run past one heartbeat time-out
TeamTicks == 1

\* what clients send with teamSelect: the three teams and a name that is none
TeamChoices == ValidTeams \cup {"green"}
\* the hits of one game loop: none, or the projectiles of one ship destroy another
\* (the ship of the first connection is the one hit, by that of the second)
TeamHits == { << >>, [destroyed |-> ShipIdOf(1), killer |-> ShipIdOf(2)] }
\* the connections that send heartbeats
TeamBeaters == {1}
\* the clock advances by the respawn delay, or past the heartbeat time-out
TeamTickMs == {RESPAWN_DELAY, HEARTBEAT_TIMEOUT + 1}

NextTeam ==
    \/ nextClient <= TeamSockets /\ TeamConnection
    \/ \E s \in clients : TeamDisconnect(s)
    \/ \E s \in clients, team \in TeamChoices :
            /\ team \notin {"red", "blue"} =>
                  Len(gameState.teams.neutral.players) < TeamMaxNeutral
            /\ TeamSelect(s, team)
    \/ \E s \in clients \cap TeamBeaters : Heartbeat(s)
    \/ \E hit \in TeamHits :
            /\ hit # << >> =>
                  /\ hit.destroyed # hit.killer
                  /\ hit.destroyed \in DOMAIN gameState.ships
                  /\ LET owner == gameState.ships[hit.destroyed].playerId
                     IN  owner \in DOMAIN gameState.players =>
                            gameState.players[owner].deaths < TeamMaxDeaths
            /\ GameLoop(hit)
    \/ \E i \in 1..Len(timers) : RespawnTimeout(i)
    \/ \E d \in TeamTickMs :
            /\ d = RESPAWN_DELAY => \E i \in 1..Len(timers) : timers[i].due > now
            /\ now + d <= StartTime + TeamTicks * RESPAWN_DELAY + HEARTBEAT_TIMEOUT + 1
            /\ Tick(d)

SpecTeam == Init /\ [][NextTeam]_vars

----------------------------------------------------------------------------
(* C39, C40: the team lists and the ships of the team server *)

RECURSIVE Occurrences(_, _)
\* how often x stands in the list
Occurrences(list, x) ==
    IF list = << >> THEN 0
    ELSE (IF Head(list) = x THEN 1 ELSE 0) + Occurrences(Tail(list), x)

\* C39: in the team-based server, team membership is consistent after any
\* sequence of connect, teamSelect and disconnect events: the id of every
\* player in the registry stands exactly once in the players list of the team
\* named by player.team and in no other team's list, and every id in a team's
\* list is the id of a player in the registry (the id of a removed player
\* stands in no list).
C39_TeamMembershipConsistent ==
    /\ \A id \in DOMAIN gameState.players : \A team \in ValidTeams :
          Occurrences(gameState.teams[team].players, id)
             = IF team = gameState.players[id].team THEN 1 ELSE 0
    /\ \A team \in ValidTeams : \A i \in 1..Len(gameState.teams[team].players) :
          gameState.teams[team].players[i] \in DOMAIN gameState.players

\* C40: in the team-based server, for every interleaving of disconnects,
\* heartbeat time-outs, team selections and the delayed respawn timer started
\* by a ship's destruction, no ship exists whose owning player is not in the
\* player registry (a respawn timer that fires after its player was removed
\* creates no ship).
C40_NoShipWithoutPlayer ==
    \A shipId \in DOMAIN gameState.ships :
        gameState.ships[shipId].playerId \in DOMAIN gameState.players

\* a respawn timer has fired after its player was removed, and created no ship
C40_Witness ==
    /\ ack.ev = "respawn"
    /\ ack.reply = ReplyNone
    /\ ack.sock \notin DOMAIN gameState.players
    /\ ShipIdOf(ack.sock) \notin DOMAIN gameState.ships

\* the game loop has removed a player whose heartbeat timed out while the
\* respawn timer of its destroyed ship is pending
C40_WitnessTimedOut ==
    /\ ack.ev = "gameLoop"
    /\ \E i \in 1..Len(timers) :
          /\ timers[i].playerId \in clients
          /\ timers[i].playerId \notin DOMAIN gameState.players

\* a respawn timer has fired for a player in the registry and created its ship
C40_WitnessRespawned ==
    /\ ack.ev = "respawn"
    /\ ack.reply = ReplyApplied
    /\ ShipIdOf(ack.sock) \in DOMAIN gameState.ships

====
